---- MODULE Spec2Model ----
(***************************************************************************)
(* Strategy engine (moving-average crossover, RSI, MACD) and trading       *)
(* orchestrator (TradingBot) of the trader bot.                            *)
(*                                                                         *)
(* Numbers: the Python code computes on floats.  Prices are small integers *)
(* here and every derived value is held as an exact rational <<num, den>>  *)
(* in lowest terms, so that equality and order of derived values are those *)
(* of the real-number computation.  numpy's inf and nan (RSI) are the      *)
(* pairs <<1, 0>> and <<0, 0>>.                                            *)
(***************************************************************************)
EXTENDS Integers, Sequences, FiniteSets, TLC

VARIABLES
    \* a strategy instance and the calls made on it
    strategy,        \* the instance (standalone, or the one TradingBot.strategy refers to)
    strategy_ref,    \* identity of the object in TradingBot.strategy; 0 is None
    last_call,       \* the most recent call on the strategy and what it returned
    prev_call,       \* the decision of the call before it, when both are execute
                     \* calls with the same in_position
    \* TradingBot
    running,         \* self.running
    stop_event,      \* self.stop_event.is_set()
    lock,            \* holder of self.lock, or "none"
    trading_thread,  \* self.trading_thread: index into loops, 0 is None
    trades,          \* self.trades, the ledger
    \* collaborators
    ws,              \* data_provider.ws is not None (the feed is subscribed)
    connects,        \* number of connect_websocket calls made so far
    position,        \* Account: a position is held
    \* threads
    callers,         \* the threads calling the public methods
    loops,           \* the threads running _trading_loop, in order of creation
    feed,            \* the WebSocket thread delivering events to _on_kline/_on_trade/_on_depth
    calls,           \* public calls begun so far
    events,          \* feed events delivered so far
    stops,           \* stop() calls that found the bot running
    orders,          \* Account.buy / Account.sell calls that returned success
    metrics,         \* the value get_performance_metrics returned last
    start_balance,   \* TradingBot.start_balance
    series           \* the observations handed to a strategy fed one at a time

strategy_vars == <<strategy, strategy_ref, last_call, prev_call>>
bot_vars == <<running, stop_event, lock, trading_thread, trades, ws, connects, position,
              callers, loops, feed, calls, events, stops, orders, metrics, start_balance, series>>
vars == <<strategy_vars, bot_vars>>

----------------------------------------------------------------------------
(* Bounds of the exploration.                                              *)

MaxBatch == 3     \* candles in one feed_ohlc batch
MaxCalls == 4     \* public TradingBot calls in one run
MaxIter == 1      \* iterations of one decision loop that get a price
MaxEvents == 1    \* events the feed delivers in one run
MaxLedger == 3    \* records of a ledger handed to get_performance_metrics
MaxSignals == 3   \* signals one loop thread is handed end to end
MaxCloses == 6    \* observations fed one at a time to a moving-average strategy
MaxSeries == 10   \* observations fed one at a time to a MACD strategy
MaxRounds == 3    \* iterations of a loop that runs alone

\* The price alphabet: two values give rising, falling and flat series.
Prices == {1, 2}


\* Candle batches handed to feed_ohlc: the close prices of 1..MaxBatch candles.
RECURSIVE SeqsUpTo(_, _)
SeqsUpTo(S, n) ==
    IF n = 0 THEN {<<>>}
    ELSE LET shorter == SeqsUpTo(S, n - 1)
         IN  shorter \cup {Append(q, x) : q \in {r \in shorter : Len(r) = n - 1}, x \in S}

Batches == SeqsUpTo(Prices, MaxBatch) \ {<<>>}

----------------------------------------------------------------------------
(* Exact rationals.                                                        *)

Abs(x) == IF x < 0 THEN -x ELSE x
Max(a, b) == IF a >= b THEN a ELSE b
Min(a, b) == IF a <= b THEN a ELSE b

RECURSIVE GCD(_, _)
GCD(a, b) == IF b = 0 THEN a ELSE GCD(b, a % b)

\* <<n, d>> in lowest terms with d >= 0; d = 0 is inf (n = 1) or nan (n = 0).
Rat(n, d) ==
    IF d = 0 THEN <<IF n > 0 THEN 1 ELSE IF n < 0 THEN -1 ELSE 0, 0>>
    ELSE LET g == GCD(Abs(n), Abs(d))
             s == IF d < 0 THEN -1 ELSE 1
         IN  <<s * (n \div g), s * (d \div g)>>

RInt(n) == <<n, 1>>
RNan == <<0, 0>>
IsNan(a) == a[2] = 0 /\ a[1] = 0
IsInf(a) == a[2] = 0 /\ a[1] # 0
IsFinite(a) == a[2] # 0

\* Sums and comparisons go through the least common denominator.
RAdd(a, b) ==
    LET g == GCD(a[2], b[2])
    IN  Rat(a[1] * (b[2] \div g) + b[1] * (a[2] \div g), (a[2] \div g) * b[2])
RSub(a, b) == RAdd(a, <<-b[1], b[2]>>)
RMul(a, b) ==
    LET g1 == GCD(Abs(a[1]), b[2])
        g2 == GCD(Abs(b[1]), a[2])
    IN  Rat((a[1] \div Max(g1, 1)) * (b[1] \div Max(g2, 1)),
            (a[2] \div Max(g2, 1)) * (b[2] \div Max(g1, 1)))
\* a / b for finite a and b; b = 0 gives inf or nan (numpy's array division)
RDiv(a, b) ==
    IF b[1] = 0 THEN Rat(a[1], 0)
    ELSE RMul(a, IF b[1] < 0 THEN <<-b[2], -b[1]>> ELSE <<b[2], b[1]>>)

\* Comparisons of finite values; any comparison with nan is false (IEEE).
RLt(a, b) ==
    /\ IsFinite(a) /\ IsFinite(b)
    /\ LET g == GCD(a[2], b[2]) IN a[1] * (b[2] \div g) < b[1] * (a[2] \div g)
RLe(a, b) ==
    /\ IsFinite(a) /\ IsFinite(b)
    /\ LET g == GCD(a[2], b[2]) IN a[1] * (b[2] \div g) <= b[1] * (a[2] \div g)
RGt(a, b) == RLt(b, a)
RGe(a, b) == RLe(b, a)

RECURSIVE SumSeq(_)
SumSeq(q) == IF q = <<>> THEN 0 ELSE q[1] + SumSeq(Tail(q))

RECURSIVE RSumSeq(_)
RSumSeq(q) == IF q = <<>> THEN RInt(0) ELSE RAdd(q[1], RSumSeq(Tail(q)))

\* Python's q[-n:] for n >= 0: the last n elements, all of q when n >= len(q),
\* and all of q when n = 0 (q[-0:] is q[0:]).
LastN(q, n) ==
    IF n = 0 \/ n >= Len(q) THEN q ELSE SubSeq(q, Len(q) - n + 1, Len(q))

\* Python's q[:n] for n >= 0.
FirstN(q, n) == IF n >= Len(q) THEN q ELSE SubSeq(q, 1, n)

\* q[-1] and q[-2]
Last(q) == q[Len(q)]
Last2(q) == q[Len(q) - 1]

----------------------------------------------------------------------------
(* TradeSignal: the value execute returns.  None is the record of type     *)
(* "NONE"; `if signal:` in the caller is  signal.type # "NONE".            *)

None == [type |-> "NONE", price |-> 0]
TradeSignal(type, price) == [type |-> type, price |-> price]

----------------------------------------------------------------------------
(* MovingAverageCrossover (strategies/moving_average_crossover.py).        *)
(* A candle is represented by its close price, the only field read.        *)

MovingAverageCrossover(fast_period, slow_period) ==
    [kind |-> "MovingAverageCrossover",
     parameters |-> [fast_period |-> fast_period, slow_period |-> slow_period],
     prices |-> <<>>, fast_ma |-> <<>>, slow_ma |-> <<>>,
     last_crossover |-> "None"]

\* a moving average whose windows are one value short
MA_calculate_simple_ma_ShortWindow(data, period) ==
    IF Len(data) - period + 1 <= 0 THEN <<>>
    ELSE [i \in 1..(Len(data) - period + 1) |->
             Rat(SumSeq(SubSeq(data, i, i + period - 2)), period)]

\* _calculate_simple_ma: one average per window of `period` consecutive values.
MA_calculate_simple_ma(data, period) ==
    IF Len(data) - period + 1 <= 0 THEN <<>>
    ELSE [i \in 1..(Len(data) - period + 1) |->
             Rat(SumSeq(SubSeq(data, i, i + period - 1)), period)]

\* The two attribute stores of _calculate_moving_averages, in program order.
MA_store_fast_ma(s) ==
    [s EXCEPT !.fast_ma = MA_calculate_simple_ma(s.prices, s.parameters.fast_period)]

MA_store_slow_ma(s) ==
    [s EXCEPT !.slow_ma = MA_calculate_simple_ma(s.prices, s.parameters.slow_period)]

MA_calculate_moving_averages(s) ==
    IF Len(s.prices) >= s.parameters.slow_period
    THEN MA_store_slow_ma(MA_store_fast_ma(s))
    ELSE s

\* feed_ohlc up to the call of _calculate_moving_averages
MA_feed_ohlc_prices(s, ohlc_data) == [s EXCEPT !.prices = ohlc_data]

MA_feed_ohlc(s, ohlc_data) ==
    MA_calculate_moving_averages(MA_feed_ohlc_prices(s, ohlc_data))

\* feed_price_quantity_volume up to the call of _calculate_moving_averages
MA_feed_pqv_prices(s, price) ==
    LET appended == Append(s.prices, price)
        max_period == Max(s.parameters.fast_period, s.parameters.slow_period)
    IN  [s EXCEPT !.prices = IF Len(appended) > max_period * 2
                             THEN LastN(appended, max_period * 2)
                             ELSE appended]

MA_feed_price_quantity_volume(s, price) ==
    MA_calculate_moving_averages(MA_feed_pqv_prices(s, price))

\* execute with the crossover recorded as soon as it is detected, before the
\* in_position gate
MA_execute_RecordsUngated(s, current_price, in_position) ==
    IF Len(s.fast_ma) < 2 \/ Len(s.slow_ma) < 2
    THEN [signal |-> None, self |-> s]
    ELSE IF RLe(Last2(s.fast_ma), Last2(s.slow_ma)) /\ RGt(Last(s.fast_ma), Last(s.slow_ma))
    THEN [signal |-> IF ~in_position THEN TradeSignal("BUY", current_price) ELSE None,
          self |-> [s EXCEPT !.last_crossover = "bullish"]]
    ELSE IF RGe(Last2(s.fast_ma), Last2(s.slow_ma)) /\ RLt(Last(s.fast_ma), Last(s.slow_ma))
    THEN [signal |-> IF in_position THEN TradeSignal("SELL", current_price) ELSE None,
          self |-> [s EXCEPT !.last_crossover = "bearish"]]
    ELSE [signal |-> None, self |-> s]

\* execute with strict comparisons on the previous values as well
MA_execute_StrictPrevious(s, current_price, in_position) ==
    IF Len(s.fast_ma) < 2 \/ Len(s.slow_ma) < 2
    THEN [signal |-> None, self |-> s]
    ELSE IF RLt(Last2(s.fast_ma), Last2(s.slow_ma)) /\ RGt(Last(s.fast_ma), Last(s.slow_ma))
    THEN IF ~in_position
         THEN [signal |-> TradeSignal("BUY", current_price),
               self |-> [s EXCEPT !.last_crossover = "bullish"]]
         ELSE [signal |-> None, self |-> s]
    ELSE IF RGt(Last2(s.fast_ma), Last2(s.slow_ma)) /\ RLt(Last(s.fast_ma), Last(s.slow_ma))
    THEN IF in_position
         THEN [signal |-> TradeSignal("SELL", current_price),
               self |-> [s EXCEPT !.last_crossover = "bearish"]]
         ELSE [signal |-> None, self |-> s]
    ELSE [signal |-> None, self |-> s]

\* execute: the signal returned and the instance after the call
MA_execute(s, current_price, in_position) ==
    IF Len(s.fast_ma) < 2 \/ Len(s.slow_ma) < 2
    THEN [signal |-> None, self |-> s]
    ELSE LET current_fast == Last(s.fast_ma)
             current_slow == Last(s.slow_ma)
             previous_fast == Last2(s.fast_ma)
             previous_slow == Last2(s.slow_ma)
         IN  IF RLe(previous_fast, previous_slow) /\ RGt(current_fast, current_slow)
             THEN IF ~in_position
                  THEN [signal |-> TradeSignal("BUY", current_price),
                        self |-> [s EXCEPT !.last_crossover = "bullish"]]
                  ELSE [signal |-> None, self |-> s]
             ELSE IF RGe(previous_fast, previous_slow) /\ RLt(current_fast, current_slow)
             THEN IF in_position
                  THEN [signal |-> TradeSignal("SELL", current_price),
                        self |-> [s EXCEPT !.last_crossover = "bearish"]]
                  ELSE [signal |-> None, self |-> s]
             ELSE [signal |-> None, self |-> s]

MA_reset(s) ==
    [s EXCEPT !.prices = <<>>, !.fast_ma = <<>>, !.slow_ma = <<>>,
              !.last_crossover = "None"]

----------------------------------------------------------------------------
(* RSIStrategy (strategies/rsi_strategy.py).                               *)

RSI_OVERSOLD == 30
RSI_OVERBOUGHT == 70

RSIStrategy(period) ==
    [kind |-> "RSIStrategy",
     parameters |-> [period |-> period, oversold |-> RSI_OVERSOLD,
                     overbought |-> RSI_OVERBOUGHT],
     prices |-> <<>>, rsi_values |-> <<>>, last_action |-> "None"]

\* np.diff, and the clipped gains and losses
RSI_deltas(prices) == [i \in 1..(Len(prices) - 1) |-> prices[i + 1] - prices[i]]
RSI_gains(deltas) == [i \in 1..Len(deltas) |-> Max(deltas[i], 0)]
RSI_losses(deltas) == [i \in 1..Len(deltas) |-> Max(-deltas[i], 0)]

\* Wilder smoothing: the simple mean of the first `period` values, then
\* (avg_prev * (period - 1) + value) / period for every later value.
RECURSIVE RSI_smooth(_, _, _, _)
RSI_smooth(values, period, i, acc) ==
    IF i > Len(values) THEN acc
    ELSE RSI_smooth(values, period, i + 1,
             Append(acc, RDiv(RAdd(RMul(Last(acc), RInt(period - 1)), RInt(values[i])),
                              RInt(period))))

RSI_average(values, period) ==
    RSI_smooth(values, period, period + 1,
               <<Rat(SumSeq(FirstN(values, period)), period)>>)

\* rsi = 100 - (100 / (1 + rs)) on numpy floats: rs = inf gives 100, rs = nan gives nan
RSI_from_rs(rs) ==
    IF IsNan(rs) THEN RNan
    ELSE IF IsInf(rs) THEN RInt(100)
    ELSE RSub(RInt(100), RDiv(RInt(100), RAdd(RInt(1), rs)))

RSI_calculate_rsi(s) ==
    LET period == s.parameters.period IN
    IF Len(s.prices) <= period THEN s
    ELSE LET deltas == RSI_deltas(s.prices)
             avg_gain == RSI_average(RSI_gains(deltas), period)
             avg_loss == RSI_average(RSI_losses(deltas), period)
         IN  [s EXCEPT !.rsi_values =
                 [i \in 1..Len(avg_gain) |-> RSI_from_rs(RDiv(avg_gain[i], avg_loss[i]))]]

RSI_feed_ohlc(s, ohlc_data) == RSI_calculate_rsi([s EXCEPT !.prices = ohlc_data])

RSI_feed_price_quantity_volume(s, price) ==
    LET appended == Append(s.prices, price)
        period == s.parameters.period
    IN  RSI_calculate_rsi([s EXCEPT !.prices = IF Len(appended) > period * 3
                                               THEN LastN(appended, period * 3)
                                               ELSE appended])

\* execute with a missing RSI read as 0 instead of returning early
RSI_execute_NoWarmup(s, current_price, in_position) ==
    LET current_rsi == IF s.rsi_values = <<>> THEN RInt(0) ELSE Last(s.rsi_values) IN
    IF /\ RLe(current_rsi, RInt(s.parameters.oversold))
       /\ ~in_position
       /\ s.last_action # "buy"
    THEN [signal |-> TradeSignal("BUY", current_price),
          self |-> [s EXCEPT !.last_action = "buy"]]
    ELSE IF /\ RGe(current_rsi, RInt(s.parameters.overbought))
            /\ in_position
            /\ s.last_action # "sell"
    THEN [signal |-> TradeSignal("SELL", current_price),
          self |-> [s EXCEPT !.last_action = "sell"]]
    ELSE [signal |-> None, self |-> s]

\* execute without the last-action check
RSI_execute_Unsuppressed(s, current_price, in_position) ==
    IF s.rsi_values = <<>>
    THEN [signal |-> None, self |-> s]
    ELSE IF RLe(Last(s.rsi_values), RInt(s.parameters.oversold)) /\ ~in_position
    THEN [signal |-> TradeSignal("BUY", current_price),
          self |-> [s EXCEPT !.last_action = "buy"]]
    ELSE IF RGe(Last(s.rsi_values), RInt(s.parameters.overbought)) /\ in_position
    THEN [signal |-> TradeSignal("SELL", current_price),
          self |-> [s EXCEPT !.last_action = "sell"]]
    ELSE [signal |-> None, self |-> s]

RSI_execute(s, current_price, in_position) ==
    IF s.rsi_values = <<>>
    THEN [signal |-> None, self |-> s]
    ELSE LET current_rsi == Last(s.rsi_values) IN
         IF /\ RLe(current_rsi, RInt(s.parameters.oversold))
            /\ ~in_position
            /\ s.last_action # "buy"
         THEN [signal |-> TradeSignal("BUY", current_price),
               self |-> [s EXCEPT !.last_action = "buy"]]
         ELSE IF /\ RGe(current_rsi, RInt(s.parameters.overbought))
                 /\ in_position
                 /\ s.last_action # "sell"
         THEN [signal |-> TradeSignal("SELL", current_price),
               self |-> [s EXCEPT !.last_action = "sell"]]
         ELSE [signal |-> None, self |-> s]

\* a reset that keeps the last-action memory
RSI_reset_KeepsLastAction(s) ==
    [s EXCEPT !.prices = <<>>, !.rsi_values = <<>>]

RSI_reset(s) ==
    [s EXCEPT !.prices = <<>>, !.rsi_values = <<>>, !.last_action = "None"]

----------------------------------------------------------------------------
(* MACDStrategy (strategies/macd_strategy.py).                             *)

MACDStrategy(fast_period, slow_period, signal_period) ==
    [kind |-> "MACDStrategy",
     parameters |-> [fast_period |-> fast_period, slow_period |-> slow_period,
                     signal_period |-> signal_period],
     prices |-> <<>>, macd_line |-> <<>>, signal_line |-> <<>>, histogram |-> <<>>,
     last_crossover |-> "None"]

\* _calculate_ema on a sequence of rationals: the simple mean of the first
\* `period` values, then (data[i] - ema_prev) * 2/(period+1) + ema_prev.
RECURSIVE MACD_ema_loop(_, _, _, _)
MACD_ema_loop(data, period, i, ema) ==
    IF i > Len(data) THEN ema
    ELSE MACD_ema_loop(data, period, i + 1,
             Append(ema, RAdd(RMul(RSub(data[i], Last(ema)), Rat(2, period + 1)),
                              Last(ema))))

MACD_calculate_ema(data, period) ==
    IF Len(data) < period THEN <<>>
    ELSE MACD_ema_loop(data, period, period + 1,
                       <<RDiv(RSumSeq(FirstN(data, period)), RInt(period))>>)

\* [a - b for a, b in zip(xs, ys)]: as long as the shorter of the two
MACD_zip_sub(xs, ys) == [i \in 1..Min(Len(xs), Len(ys)) |-> RSub(xs[i], ys[i])]

\* The local macd_line of _calculate_macd: fast EMA minus slow EMA, the fast
\* series cut to its last len(slow_ema) values.
MACD_local_macd_line(s) ==
    LET data == [i \in 1..Len(s.prices) |-> RInt(s.prices[i])]
        fast_ema == MACD_calculate_ema(data, s.parameters.fast_period)
        slow_ema == MACD_calculate_ema(data, s.parameters.slow_period)
    IN  MACD_zip_sub(LastN(fast_ema, Len(slow_ema)), slow_ema)

\* Whether _calculate_macd reaches its three stores.
MACD_stores_series(s) ==
    /\ Len(s.prices) > s.parameters.slow_period
    /\ Len(MACD_local_macd_line(s)) >= s.parameters.signal_period

\* _calculate_macd storing the MACD line at its full length
MACD_calculate_macd_Untrimmed(s) ==
    IF Len(s.prices) <= s.parameters.slow_period THEN s
    ELSE LET macd_line == MACD_local_macd_line(s)
         IN  IF Len(macd_line) >= s.parameters.signal_period
             THEN LET signal_line ==
                          MACD_calculate_ema(macd_line, s.parameters.signal_period)
                      histogram ==
                          MACD_zip_sub(LastN(macd_line, Len(signal_line)), signal_line)
                  IN  [s EXCEPT !.macd_line = macd_line,
                                !.signal_line = signal_line,
                                !.histogram = histogram]
             ELSE s

MACD_calculate_macd(s) ==
    IF Len(s.prices) <= s.parameters.slow_period THEN s
    ELSE LET macd_line == MACD_local_macd_line(s)
         IN  IF Len(macd_line) >= s.parameters.signal_period
             THEN LET signal_line ==
                          MACD_calculate_ema(macd_line, s.parameters.signal_period)
                      histogram ==
                          MACD_zip_sub(LastN(macd_line, Len(signal_line)), signal_line)
                  IN  [s EXCEPT !.macd_line = LastN(macd_line, Len(signal_line)),
                                !.signal_line = signal_line,
                                !.histogram = histogram]
             ELSE s

MACD_feed_ohlc(s, ohlc_data) == MACD_calculate_macd([s EXCEPT !.prices = ohlc_data])

MACD_feed_price_quantity_volume(s, price) ==
    LET appended == Append(s.prices, price)
        max_period == Max(s.parameters.fast_period, s.parameters.slow_period) * 3
    IN  MACD_calculate_macd([s EXCEPT !.prices = IF Len(appended) > max_period
                                                 THEN LastN(appended, max_period)
                                                 ELSE appended])

\* execute with the last crossover suppressing a repeated signal, as the RSI
\* strategy does with its last action
MACD_execute_Suppressing(s, current_price, in_position) ==
    IF Len(s.macd_line) < 2 \/ Len(s.signal_line) < 2
    THEN [signal |-> None, self |-> s]
    ELSE IF /\ RLe(Last2(s.macd_line), Last2(s.signal_line))
            /\ RGt(Last(s.macd_line), Last(s.signal_line))
            /\ ~in_position
            /\ s.last_crossover # "bullish"
    THEN [signal |-> TradeSignal("BUY", current_price),
          self |-> [s EXCEPT !.last_crossover = "bullish"]]
    ELSE IF /\ RGe(Last2(s.macd_line), Last2(s.signal_line))
            /\ RLt(Last(s.macd_line), Last(s.signal_line))
            /\ in_position
            /\ s.last_crossover # "bearish"
    THEN [signal |-> TradeSignal("SELL", current_price),
          self |-> [s EXCEPT !.last_crossover = "bearish"]]
    ELSE [signal |-> None, self |-> s]

MACD_execute(s, current_price, in_position) ==
    IF Len(s.macd_line) < 2 \/ Len(s.signal_line) < 2
    THEN [signal |-> None, self |-> s]
    ELSE LET current_macd == Last(s.macd_line)
             current_signal == Last(s.signal_line)
             previous_macd == Last2(s.macd_line)
             previous_signal == Last2(s.signal_line)
         IN  IF RLe(previous_macd, previous_signal) /\ RGt(current_macd, current_signal)
             THEN IF ~in_position
                  THEN [signal |-> TradeSignal("BUY", current_price),
                        self |-> [s EXCEPT !.last_crossover = "bullish"]]
                  ELSE [signal |-> None, self |-> s]
             ELSE IF RGe(previous_macd, previous_signal) /\ RLt(current_macd, current_signal)
             THEN IF in_position
                  THEN [signal |-> TradeSignal("SELL", current_price),
                        self |-> [s EXCEPT !.last_crossover = "bearish"]]
                  ELSE [signal |-> None, self |-> s]
             ELSE [signal |-> None, self |-> s]

MACD_reset(s) ==
    [s EXCEPT !.prices = <<>>, !.macd_line = <<>>, !.signal_line = <<>>,
              !.histogram = <<>>, !.last_crossover = "None"]

----------------------------------------------------------------------------
(* The polymorphic strategy contract: dispatch on the instance's class.    *)

execute(s, current_price, in_position) ==
    CASE s.kind = "MovingAverageCrossover" -> MA_execute(s, current_price, in_position)
      [] s.kind = "RSIStrategy" -> RSI_execute(s, current_price, in_position)
      [] s.kind = "MACDStrategy" -> MACD_execute(s, current_price, in_position)

feed_ohlc(s, ohlc_data) ==
    CASE s.kind = "MovingAverageCrossover" -> MA_feed_ohlc(s, ohlc_data)
      [] s.kind = "RSIStrategy" -> RSI_feed_ohlc(s, ohlc_data)
      [] s.kind = "MACDStrategy" -> MACD_feed_ohlc(s, ohlc_data)

feed_price_quantity_volume(s, price) ==
    CASE s.kind = "MovingAverageCrossover" -> MA_feed_price_quantity_volume(s, price)
      [] s.kind = "RSIStrategy" -> RSI_feed_price_quantity_volume(s, price)
      [] s.kind = "MACDStrategy" -> MACD_feed_price_quantity_volume(s, price)

\* feed_depth: `pass` in the three classes
feed_depth(s) == s

reset(s) ==
    CASE s.kind = "MovingAverageCrossover" -> MA_reset(s)
      [] s.kind = "RSIStrategy" -> RSI_reset(s)
      [] s.kind = "MACDStrategy" -> MACD_reset(s)

\* The series derived from the prices, and the memory cell, of an instance.
DerivedSeries(s) ==
    CASE s.kind = "MovingAverageCrossover" -> <<s.fast_ma, s.slow_ma>>
      [] s.kind = "RSIStrategy" -> <<s.rsi_values>>
      [] s.kind = "MACDStrategy" -> <<s.macd_line, s.signal_line, s.histogram>>

Memory(s) == IF s.kind = "RSIStrategy" THEN s.last_action ELSE s.last_crossover

\* Freshly constructed instances: the constructor arguments explored.
FreshStrategies ==
    {MovingAverageCrossover(1, 1), MovingAverageCrossover(1, 2),
     MovingAverageCrossover(2, 1),
     RSIStrategy(1), RSIStrategy(2),
     MACDStrategy(1, 2, 2)}

----------------------------------------------------------------------------
(* TradingBot after __init__ (trading.py 24-64), with a simulated account. *)

Callers == {"ui1", "ui2"}

NoStrategy == [kind |-> "None"]

IdleCaller == [pc |-> "idle", current_price |-> 0, result |-> "none",
               current_balance |-> 0, buy_trades |-> <<>>, sell_trades |-> <<>>]
IdleFeed == [pc |-> "idle", event |-> "none", price |-> 0, ref |-> 0, stores |-> <<>>,
             result |-> NoStrategy]

\* No get_performance_metrics call has returned yet.
NoMetrics == [returned |-> "nothing"]

\* SimulatedAccount(initial_balance=1000.0) (51) and
\* `self.start_balance = self.account.get_balance()` (62)
StartBalance == 1000

InitBot ==
    /\ running = FALSE
    /\ stop_event = FALSE
    /\ lock = "none"
    /\ trading_thread = 0
    /\ trades = <<>>
    /\ ws = FALSE
    /\ connects = 0
    /\ position = FALSE
    /\ callers = [c \in Callers |-> IdleCaller]
    /\ loops = <<>>
    /\ feed = IdleFeed
    /\ calls = 0
    /\ events = 0
    /\ stops = 0
    /\ orders = 0
    /\ metrics = NoMetrics
    /\ start_balance = StartBalance
    /\ series = <<>>

----------------------------------------------------------------------------
(* Calls on a standalone strategy instance, one after the other.           *)

Call(op, in_position, signal) ==
    [op |-> op, in_position |-> in_position, signal |-> signal]

NoCall == Call("init", FALSE, None)

InitStrategy ==
    /\ strategy \in FreshStrategies
    /\ strategy_ref = 1
    /\ last_call = NoCall
    /\ prev_call = NoCall
    /\ InitBot

FeedOhlc(ohlc_data) ==
    /\ strategy' = feed_ohlc(strategy, ohlc_data)
    /\ last_call' = Call("feed", FALSE, None)
    /\ prev_call' = NoCall
    /\ UNCHANGED <<strategy_ref, bot_vars>>

FeedPriceQuantityVolume(price) ==
    /\ strategy' = feed_price_quantity_volume(strategy, price)
    /\ last_call' = Call("feed", FALSE, None)
    /\ prev_call' = NoCall
    /\ UNCHANGED <<strategy_ref, bot_vars>>

FeedDepth ==
    /\ strategy' = feed_depth(strategy)
    /\ last_call' = Call("feed", FALSE, None)
    /\ prev_call' = NoCall
    /\ UNCHANGED <<strategy_ref, bot_vars>>

Execute(current_price, in_position) ==
    LET r == execute(strategy, current_price, in_position) IN
    /\ strategy' = r.self
    /\ last_call' = Call("execute", in_position, r.signal)
    /\ prev_call' = IF last_call.op = "execute" /\ last_call.in_position = in_position
                    THEN Call("execute", in_position, [None EXCEPT !.type = last_call.signal.type])
                    ELSE NoCall
    /\ UNCHANGED <<strategy_ref, bot_vars>>

Reset ==
    /\ strategy' = reset(strategy)
    /\ last_call' = Call("reset", FALSE, None)
    /\ prev_call' = NoCall
    /\ UNCHANGED <<strategy_ref, bot_vars>>

ExecuteCall == \E p \in Prices, b \in BOOLEAN : Execute(p, b)
FeedOhlcCall == \E batch \in Batches : FeedOhlc(batch)
FeedTickCall == \E p \in Prices : FeedPriceQuantityVolume(p)

NextStrategy ==
    \/ FeedOhlcCall
    \/ FeedTickCall
    \/ FeedDepth
    \/ ExecuteCall
    \/ Reset

SpecStrategy == InitStrategy /\ [][NextStrategy]_vars

----------------------------------------------------------------------------
(* A strategy fed one observation at a time through                        *)
(* feed_price_quantity_volume, with execute calls in between.              *)

\* The instances fed: the moving-average strategy with periods 2 and 3 and
\* the MACD strategy with periods 2, 3 and 2.
SeriesStrategies == {MovingAverageCrossover(2, 3), MACDStrategy(2, 3, 2)}

\* The observations each one is fed, and how many of them.
SeriesPrices(s) == IF s.kind = "MovingAverageCrossover" THEN {1, 2, 3, 10} ELSE {1, 2}
SeriesLength(s) == IF s.kind = "MovingAverageCrossover" THEN MaxCloses ELSE MaxSeries

InitSeries ==
    /\ strategy \in SeriesStrategies
    /\ strategy_ref = 1
    /\ last_call = NoCall
    /\ prev_call = NoCall
    /\ InitBot

FeedObservation(price) ==
    /\ Len(series) < SeriesLength(strategy)
    /\ price \in SeriesPrices(strategy)
    /\ series' = Append(series, price)
    /\ strategy' = feed_price_quantity_volume(strategy, price)
    /\ last_call' = Call("feed", FALSE, None)
    /\ prev_call' = NoCall
    /\ UNCHANGED <<strategy_ref, running, stop_event, lock, trading_thread, trades,
                   ws, connects, position, callers, loops, feed, calls, events, stops,
                   orders, metrics, start_balance>>

\* execute at the price last observed
ExecuteObserved(in_position) ==
    /\ series # <<>>
    /\ Execute(Last(series), in_position)

NextSeries ==
    \/ \E price \in {1, 2, 3, 10} : FeedObservation(price)
    \/ \E in_position \in BOOLEAN : ExecuteObserved(in_position)

SpecSeries == InitSeries /\ [][NextSeries]_vars

----------------------------------------------------------------------------
(* The attribute stores of one feed call, in program order.  A feed call   *)
(* is the only writer of the series, so the value each store writes is the *)
(* one the whole call computes; another thread can run between two stores. *)

DerivedStores(s) ==
    CASE s.kind = "MovingAverageCrossover" ->
             IF Len(s.prices) >= s.parameters.slow_period
             THEN <<"fast_ma", "slow_ma">> ELSE <<>>
      [] s.kind = "RSIStrategy" ->
             IF Len(s.prices) > s.parameters.period THEN <<"rsi_values">> ELSE <<>>
      [] s.kind = "MACDStrategy" ->
             IF MACD_stores_series(s)
             THEN <<"macd_line", "signal_line", "histogram">> ELSE <<>>

\* s after the store of attribute f by a feed call whose outcome is `result`
Store(s, f, result) == [s EXCEPT ![f] = result[f]]

----------------------------------------------------------------------------
(* The orchestrator: TradingBot (trading.py) run by concurrent threads.    *)

\* Strategy objects handed to set_strategy, each backfilled with candles by
\* its creator: a moving-average instance about to signal BUY and an RSI
\* instance at an oversold value.
StrategyInputs ==
    {[ref |-> 1, instance |-> feed_ohlc(MovingAverageCrossover(1, 2), <<1, 1, 2>>)],
     [ref |-> 2, instance |-> feed_ohlc(RSIStrategy(1), <<2, 1>>)]}

\* get_current_price returns the ticker price, or 0.0 on an HTTP error
\* (data_provider.py 171-176).
TickerPrices == {2}
QueriedPrices == TickerPrices \cup {0}

\* Closes and trade prices the stream delivers.
StreamPrices == {1}

NewLoop == [pc |-> "check", current_price |-> 0, in_position |-> FALSE,
            signal |-> None, iter |-> 0]

InitSpecBot ==
    /\ strategy = NoStrategy
    /\ strategy_ref = 0
    /\ last_call = NoCall
    /\ prev_call = NoCall
    /\ InitBot

\* A caller that has a result in its hands takes it before any thread is
\* scheduled again: taking it touches nothing shared.
Resuming == \E c \in Callers : callers[c].pc = "returned"

Idle(c) == callers[c].pc = "idle"
At(c, pc) == ~Resuming /\ callers[c].pc = pc
MayCall(c) == At(c, "idle") /\ calls < MaxCalls

\* the call is over: its result (or the exception it raised) is in the
\* caller's hands until the caller goes on
Return(c, result) ==
    [callers EXCEPT ![c] = [IdleCaller EXCEPT !.pc = "returned", !.result = result]]
Returned(c, result) == callers[c] = [IdleCaller EXCEPT !.pc = "returned", !.result = result]

\* the caller takes the result, a metrics dictionary included, and is free
\* for its next call
Resume(c) ==
    /\ callers[c].pc = "returned"
    /\ callers' = [callers EXCEPT ![c] = IdleCaller]
    /\ metrics' = NoMetrics
    /\ UNCHANGED <<strategy_vars, running, stop_event, lock, trading_thread, trades,
                   ws, connects, position, loops, feed, calls, events, stops, orders, start_balance, series>>
Goto(c, pc) == [callers EXCEPT ![c].pc = pc]

\* set_strategy (66-74)
SetStrategy(c, input) ==
    /\ MayCall(c)
    /\ input.ref > strategy_ref
    /\ strategy' = input.instance
    /\ strategy_ref' = input.ref
    /\ callers' = Return(c, "set")
    /\ calls' = calls + 1
    /\ UNCHANGED <<last_call, prev_call, running, stop_event, lock, trading_thread,
                   trades, ws, connects, position, loops, feed, events, stops, orders,
                   metrics, start_balance, series>>

\* start without the strategy check of lines 80-81
StartBegin_Unchecked(c) ==
    /\ MayCall(c)
    /\ callers' = Goto(c, "start_lock")
    /\ calls' = calls + 1
    /\ UNCHANGED <<strategy_vars, running, stop_event, lock, trading_thread, trades,
                   ws, connects, position, loops, feed, events, stops, orders,
                   metrics, start_balance, series>>

\* start: `if not self.strategy: raise ValueError` (80-81)
StartBegin(c) ==
    /\ MayCall(c)
    /\ callers' = IF strategy_ref = 0 THEN Return(c, "ValueError")
                  ELSE Goto(c, "start_lock")
    /\ calls' = calls + 1
    /\ UNCHANGED <<strategy_vars, running, stop_event, lock, trading_thread, trades,
                   ws, connects, position, loops, feed, events, stops, orders,
                   metrics, start_balance, series>>

\* start without the `if self.running: return` of lines 84-86
StartLock_Unguarded(c) ==
    /\ At(c, "start_lock")
    /\ lock = "none"
    /\ running' = TRUE
    /\ lock' = c
    /\ callers' = Goto(c, "start_clear")
    /\ UNCHANGED <<strategy_vars, stop_event, trading_thread, trades, ws, connects,
                   position, loops, feed, calls, events, stops, orders,
                   metrics, start_balance, series>>

\* start: `with self.lock:`, the running check and `self.running = True` (83-88)
StartLock(c) ==
    /\ At(c, "start_lock")
    /\ lock = "none"
    /\ IF running
       THEN /\ callers' = Return(c, "already_running")
            /\ UNCHANGED <<running, lock>>
       ELSE /\ running' = TRUE
            /\ lock' = c
            /\ callers' = Goto(c, "start_clear")
    /\ UNCHANGED <<strategy_vars, stop_event, trading_thread, trades, ws, connects,
                   position, loops, feed, calls, events, stops, orders,
                   metrics, start_balance, series>>

\* start: `self.stop_event.clear()` and the release of the lock (89)
StartClear(c) ==
    /\ At(c, "start_clear")
    /\ stop_event' = FALSE
    /\ lock' = "none"
    /\ callers' = Goto(c, "start_connect")
    /\ UNCHANGED <<strategy_vars, running, trading_thread, trades, ws, connects,
                   position, loops, feed, calls, events, stops, orders,
                   metrics, start_balance, series>>

\* start: data_provider.connect_websocket (92-96; data_provider.py 206-245)
StartConnect(c) ==
    /\ At(c, "start_connect")
    /\ ws' = TRUE
    /\ connects' = connects + 1
    /\ callers' = Goto(c, "start_thread")
    /\ UNCHANGED <<strategy_vars, running, stop_event, lock, trading_thread, trades,
                   position, loops, feed, calls, events, stops, orders,
                   metrics, start_balance, series>>

\* start: the new thread running _trading_loop (99-103)
StartThread(c) ==
    /\ At(c, "start_thread")
    /\ loops' = Append(loops, NewLoop)
    /\ trading_thread' = Len(loops) + 1
    /\ callers' = Return(c, "started")
    /\ UNCHANGED <<strategy_vars, running, stop_event, lock, trades, ws, connects,
                   position, feed, calls, events, stops, orders,
                   metrics, start_balance, series>>

\* stop without the `if not self.running: return` of lines 110-112
StopLock_Unguarded(c) ==
    /\ MayCall(c)
    /\ lock = "none"
    /\ running' = FALSE
    /\ lock' = c
    /\ stops' = stops + 1
    /\ callers' = Goto(c, "stop_set")
    /\ calls' = calls + 1
    /\ UNCHANGED <<strategy_vars, stop_event, trading_thread, trades, ws, connects,
                   position, loops, feed, events, orders, metrics, start_balance, series>>

\* stop: `with self.lock:`, the running check and `self.running = False` (109-114)
StopLock(c) ==
    /\ MayCall(c)
    /\ lock = "none"
    /\ IF ~running
       THEN /\ callers' = Return(c, "not_running")
            /\ UNCHANGED <<running, lock, stops>>
       ELSE /\ running' = FALSE
            /\ lock' = c
            /\ stops' = stops + 1
            /\ callers' = Goto(c, "stop_set")
    /\ calls' = calls + 1
    /\ UNCHANGED <<strategy_vars, stop_event, trading_thread, trades, ws, connects,
                   position, loops, feed, events, orders, metrics, start_balance, series>>

\* stop: `self.stop_event.set()` and the release of the lock (115)
StopSet(c) ==
    /\ At(c, "stop_set")
    /\ stop_event' = TRUE
    /\ lock' = "none"
    /\ callers' = Goto(c, "stop_disconnect")
    /\ UNCHANGED <<strategy_vars, running, trading_thread, trades, ws, connects,
                   position, loops, feed, calls, events, stops, orders,
                   metrics, start_balance, series>>

\* stop: data_provider.disconnect_websocket (118; data_provider.py 247-256)
StopDisconnect(c) ==
    /\ At(c, "stop_disconnect")
    /\ ws' = FALSE
    /\ callers' = Goto(c, "stop_join")
    /\ UNCHANGED <<strategy_vars, running, stop_event, lock, trading_thread, trades,
                   connects, position, loops, feed, calls, events, stops, orders,
                   metrics, start_balance, series>>

\* stop: `self.trading_thread.join(timeout=5.0)` (121-122) and the performance
\* summary (124-127).  The join returns when the thread has ended or when the
\* timeout elapses, whichever is first; the loop can be blocked in its price
\* query or asleep for longer than that.
StopJoin(c) ==
    /\ At(c, "stop_join")
    /\ callers' = Return(c, "stopped")
    /\ UNCHANGED <<strategy_vars, running, stop_event, lock, trading_thread, trades,
                   ws, connects, position, loops, feed, calls, events, stops, orders,
                   metrics, start_balance, series>>

----------------------------------------------------------------------------
(* The account behind the orchestrator: the position flag it reports and   *)
(* the effect of an order that succeeded or failed.                        *)

Account_has_position == position

\* buy: a successful order leaves the account holding a position
Account_buy(success) == position \/ success

\* sell: only a held position can be sold; a successful order closes it
Account_sell_may_succeed == position
Account_sell(success) == position /\ ~success

\* An order returns success or failure, or the call raises.
OrderOutcomes == {"success", "failure", "raised"}

\* The profit a successful sell reports; a BUY record carries none, which
\* `t.get("profit", 0.0)` reads as 0.
SellProfits == {-1, 1}
ProfitsOf(type) == IF type = "SELL" THEN SellProfits ELSE {0}

LedgerEntry(type, price, manual, profit) ==
    [type |-> type, price |-> price, manual |-> manual, profit |-> profit]

----------------------------------------------------------------------------
(* _trading_loop (129-153) and _process_signal (155-199), one thread per   *)
(* started loop; loops[k] is the k-th thread started.                      *)

LoopAt(k, pc) == ~Resuming /\ k \in 1..Len(loops) /\ loops[k].pc = pc
\* The locals of an iteration are dead once it is over: they are assigned
\* again before they are read.
LoopGoto(k, pc) ==
    IF pc \in {"check", "backoff", "done"}
    THEN [loops EXCEPT ![k] = [NewLoop EXCEPT !.pc = pc, !.iter = loops[k].iter]]
    ELSE [loops EXCEPT ![k].pc = pc]

\* a loop whose thread ends with the error instead of handling it
LoopHandle_Terminates(k) == LoopGoto(k, "done")

\* `except Exception as e:` (151-152): the error is logged and the thread
\* goes on to the handler's sleep
LoopHandle(k) == LoopGoto(k, "backoff")

\* a loop that never tests the stop event
LoopCheck_IgnoresStop(k, raised, price) ==
    /\ LoopAt(k, "check")
    /\ IF raised
       THEN loops' = LoopHandle(k)
       ELSE /\ loops[k].iter < MaxIter
            /\ loops' = [loops EXCEPT ![k].pc = "position", ![k].iter = @ + 1,
                                      ![k].current_price = price]
    /\ UNCHANGED <<strategy_vars, running, stop_event, lock, trading_thread, trades,
                   ws, connects, position, callers, feed, calls, events, stops, orders,
                   metrics, start_balance, series>>

\* `while not self.stop_event.is_set():` (133) and, the event not set,
\* `current_price = self.data_provider.get_current_price(self.symbol)` (136);
\* the query touches nothing shared, and a request that raises ends the
\* iteration in the handler (151-153).
LoopCheck(k, raised, price) ==
    /\ LoopAt(k, "check")
    /\ IF stop_event
       THEN loops' = LoopGoto(k, "done")
       ELSE IF raised
       THEN loops' = LoopHandle(k)
       ELSE /\ loops[k].iter < MaxIter
            /\ loops' = [loops EXCEPT ![k].pc = "position", ![k].iter = @ + 1,
                                      ![k].current_price = price]
    /\ UNCHANGED <<strategy_vars, running, stop_event, lock, trading_thread, trades,
                   ws, connects, position, callers, feed, calls, events, stops, orders,
                   metrics, start_balance, series>>

\* `in_position = self.account.has_position(self.symbol)` (139)
LoopPosition(k, raised) ==
    /\ LoopAt(k, "position")
    /\ loops' = IF raised THEN LoopHandle(k)
                ELSE [loops EXCEPT ![k].pc = "execute",
                                   ![k].in_position = Account_has_position]
    /\ UNCHANGED <<strategy_vars, running, stop_event, lock, trading_thread, trades,
                   ws, connects, position, callers, feed, calls, events, stops, orders,
                   metrics, start_balance, series>>

\* `signal = self.strategy.execute(current_price, in_position)` and
\* `if signal:` (142-149)
LoopExecute(k) ==
    /\ LoopAt(k, "execute")
    /\ LET r == execute(strategy, loops[k].current_price, loops[k].in_position)
       IN  /\ strategy' = r.self
           /\ loops' = IF r.signal = None THEN LoopGoto(k, "check")
                       ELSE [loops EXCEPT ![k].signal = r.signal, ![k].pc = "order"]
    /\ UNCHANGED <<strategy_ref, last_call, prev_call, running, stop_event, lock,
                   trading_thread, trades, ws, connects, position, callers, feed,
                   calls, events, stops, orders, metrics, start_balance, series>>

\* _process_signal recording the trade whether or not the order succeeded
LoopOrder_AlwaysRecords(k, outcome) ==
    /\ LoopAt(k, "order")
    /\ LET success == outcome = "success" IN
       /\ IF loops[k].signal.type = "BUY"
          THEN position' = Account_buy(success)
          ELSE /\ success => Account_sell_may_succeed
               /\ position' = Account_sell(success)
       /\ orders' = IF success THEN orders + 1 ELSE orders
       /\ loops' = LoopGoto(k, "append")
    /\ UNCHANGED <<strategy_vars, running, stop_event, lock, trading_thread, trades,
                   ws, connects, callers, feed, calls, events, stops, metrics, start_balance, series>>

\* _process_signal telling the strategy of an order that did not succeed, so
\* that it signals again
LoopOrder_RearmsOnFailure(k, outcome) ==
    /\ LoopAt(k, "order")
    /\ LET success == outcome = "success" IN
       /\ IF loops[k].signal.type = "BUY"
          THEN position' = Account_buy(success)
          ELSE /\ success => Account_sell_may_succeed
               /\ position' = Account_sell(success)
       /\ orders' = IF success THEN orders + 1 ELSE orders
       /\ loops' = LoopGoto(k, IF success THEN "append" ELSE "check")
       /\ strategy' = IF success THEN strategy ELSE reset(strategy)
    /\ UNCHANGED <<strategy_ref, last_call, prev_call, running, stop_event, lock,
                   trading_thread, trades, ws, connects, callers, feed, calls, events,
                   stops, metrics, start_balance, series>>

\* _process_signal: the order placed for the signal (163-165, 180-182); an
\* order that raises is logged by _process_signal itself (198-199), which
\* then returns to the loop
LoopOrder(k, outcome) ==
    /\ LoopAt(k, "order")
    /\ LET success == outcome = "success" IN
       /\ IF loops[k].signal.type = "BUY"
          THEN position' = Account_buy(success)
          ELSE /\ success => Account_sell_may_succeed
               /\ position' = Account_sell(success)
       /\ orders' = IF success THEN orders + 1 ELSE orders
       /\ loops' = LoopGoto(k, IF success THEN "append" ELSE "check")
    /\ UNCHANGED <<strategy_vars, running, stop_event, lock, trading_thread, trades,
                   ws, connects, callers, feed, calls, events, stops, metrics, start_balance, series>>

\* `time.sleep(5.0)` in the handler (153), then the test of the stop event
LoopBackoff(k) ==
    /\ LoopAt(k, "backoff")
    /\ loops' = LoopGoto(k, "check")
    /\ UNCHANGED <<strategy_vars, running, stop_event, lock, trading_thread, trades,
                   ws, connects, position, callers, feed, calls, events, stops, orders,
                   metrics, start_balance, series>>

\* _process_signal keeping only the latest trade
LoopAppend_Replaces(k, profit) ==
    /\ LoopAt(k, "append")
    /\ profit \in ProfitsOf(loops[k].signal.type)
    /\ trades' = <<LedgerEntry(loops[k].signal.type, loops[k].signal.price,
                               FALSE, profit)>>
    /\ loops' = LoopGoto(k, "check")
    /\ UNCHANGED <<strategy_vars, running, stop_event, lock, trading_thread, ws,
                   connects, position, callers, feed, calls, events, stops, orders,
                   metrics, start_balance, series>>

\* _process_signal: `self.trades.append({...})` (171-176, 188-194)
LoopAppend(k, profit) ==
    /\ LoopAt(k, "append")
    /\ profit \in ProfitsOf(loops[k].signal.type)
    /\ trades' = Append(trades, LedgerEntry(loops[k].signal.type, loops[k].signal.price,
                                            FALSE, profit))
    /\ loops' = LoopGoto(k, "check")
    /\ UNCHANGED <<strategy_vars, running, stop_event, lock, trading_thread, ws,
                   connects, position, callers, feed, calls, events, stops, orders,
                   metrics, start_balance, series>>

----------------------------------------------------------------------------
(* manual_buy (296-320) and manual_sell (322-347), run by the caller.      *)

\* the price query (303, 329); a request that raises ends the call
ManualPrice(c, type, raised, price) ==
    /\ MayCall(c)
    /\ callers' = IF raised THEN Return(c, "raised")
                  ELSE [callers EXCEPT ![c].pc = type, ![c].current_price = price]
    /\ calls' = calls + 1
    /\ UNCHANGED <<strategy_vars, running, stop_event, lock, trading_thread, trades,
                   ws, connects, position, loops, feed, events, stops, orders,
                   metrics, start_balance, series>>

ManualBuyPrice(c, raised, price) == ManualPrice(c, "BUY", raised, price)
ManualSellPrice(c, raised, price) == ManualPrice(c, "SELL", raised, price)

\* the return of an order call: the result goes to the caller after the
\* ledger append when the order succeeded, at once when it failed, and a
\* call that raises ends manual_buy / manual_sell with the exception
AfterOrder(c, type, outcome) ==
    CASE outcome = "success" -> Goto(c, IF type = "BUY" THEN "append_BUY" ELSE "append_SELL")
      [] outcome = "failure" -> Return(c, "failure")
      [] outcome = "raised" -> Return(c, "raised")

\* `result = self.account.buy(self.symbol, current_price)` (304)
ManualBuyOrder(c, outcome) ==
    /\ At(c, "BUY")
    /\ position' = Account_buy(outcome = "success")
    /\ orders' = IF outcome = "success" THEN orders + 1 ELSE orders
    /\ callers' = AfterOrder(c, "BUY", outcome)
    /\ UNCHANGED <<strategy_vars, running, stop_event, lock, trading_thread, trades,
                   ws, connects, loops, feed, calls, events, stops, metrics, start_balance, series>>

\* `result = self.account.sell(self.symbol, current_price)` (330)
ManualSellOrder(c, outcome) ==
    /\ At(c, "SELL")
    /\ outcome = "success" => Account_sell_may_succeed
    /\ position' = Account_sell(outcome = "success")
    /\ orders' = IF outcome = "success" THEN orders + 1 ELSE orders
    /\ callers' = AfterOrder(c, "SELL", outcome)
    /\ UNCHANGED <<strategy_vars, running, stop_event, lock, trading_thread, trades,
                   ws, connects, loops, feed, calls, events, stops, metrics, start_balance, series>>

\* a manual order recorded without the "manual" key
ManualAppend_Untagged(c, type, profit) ==
    /\ At(c, IF type = "BUY" THEN "append_BUY" ELSE "append_SELL")
    /\ profit \in ProfitsOf(type)
    /\ trades' = Append(trades, LedgerEntry(type, callers[c].current_price, FALSE, profit))
    /\ callers' = Return(c, "success")
    /\ UNCHANGED <<strategy_vars, running, stop_event, lock, trading_thread, ws,
                   connects, position, loops, feed, calls, events, stops, orders,
                   metrics, start_balance, series>>

\* `self.trades.append({..., "manual": True})` (310-316, 336-343)
ManualAppend(c, type, profit) ==
    /\ At(c, IF type = "BUY" THEN "append_BUY" ELSE "append_SELL")
    /\ profit \in ProfitsOf(type)
    /\ trades' = Append(trades, LedgerEntry(type, callers[c].current_price, TRUE, profit))
    /\ callers' = Return(c, "success")
    /\ UNCHANGED <<strategy_vars, running, stop_event, lock, trading_thread, ws,
                   connects, position, loops, feed, calls, events, stops, orders,
                   metrics, start_balance, series>>

----------------------------------------------------------------------------
(* get_performance_metrics (264-294).                                      *)

\* Balances the account reports once orders have been filled.
AccountBalances == {900, 1100}

IsBuy(t) == t.type = "BUY"
IsSell(t) == t.type = "SELL"
\* `[t for t in self.trades if t["type"] == "BUY"]` (275) and "SELL" (276)
buy_trades_of(ledger) == SelectSeq(ledger, IsBuy)
sell_trades_of(ledger) == SelectSeq(ledger, IsSell)

\* a win rate that counts a sell without profit as a win
IsWinning_NonNegative(t) == t.profit >= 0

\* `t.get("profit", 0.0) > 0.0` (291)
IsWinning(t) == t.profit > 0
\* `winning_trades = [t for t in sell_trades if ...]` (291)
winning_trades_of(sell_trades) == SelectSeq(sell_trades, IsWinning)

\* a win rate reported as a fraction of 1
win_rate_of_Fraction(sell_trades) ==
    IF Len(sell_trades) > 0
    THEN Rat(Len(winning_trades_of(sell_trades)), Len(sell_trades))
    ELSE RInt(0)

\* `(len(winning_trades) / len(sell_trades)) * 100` under `if sell_trades:`,
\* else the 0.0 of the dictionary literal (286-292)
win_rate_of(sell_trades) ==
    IF Len(sell_trades) > 0
    THEN Rat(100 * Len(winning_trades_of(sell_trades)), Len(sell_trades))
    ELSE RInt(0)

\* the dictionary returned (278-294)
MetricsDict(start_bal, current_balance, num_trades, buy_trades, sell_trades) ==
    [returned |-> "metrics",
     start_balance |-> start_bal,
     current_balance |-> current_balance,
     profit |-> current_balance - start_bal,
     profit_percent |-> Rat(100 * (current_balance - start_bal), start_bal),
     num_trades |-> num_trades,
     num_buy_trades |-> Len(buy_trades),
     num_sell_trades |-> Len(sell_trades),
     win_rate |-> win_rate_of(sell_trades)]

\* `profit / self.start_balance` (273) raises when the starting balance is 0
ZeroDivisionError == [returned |-> "ZeroDivisionError"]

\* the whole call on a ledger no other thread appends to meanwhile
get_performance_metrics(ledger, start_bal, current_balance) ==
    IF start_bal = 0 THEN ZeroDivisionError
    ELSE MetricsDict(start_bal, current_balance, Len(ledger),
                     buy_trades_of(ledger), sell_trades_of(ledger))

\* `current_balance = self.account.get_balance()` and the profit (271-273)
MetricsBalance(c, current_balance) ==
    /\ MayCall(c)
    /\ callers' = [callers EXCEPT ![c].pc = "metrics_buy",
                                  ![c].current_balance = current_balance]
    /\ calls' = calls + 1
    /\ UNCHANGED <<strategy_vars, running, stop_event, lock, trading_thread, trades,
                   ws, connects, position, loops, feed, events, stops, orders,
                   metrics, start_balance, series>>

\* `buy_trades = [...]` (275)
MetricsBuyTrades(c) ==
    /\ At(c, "metrics_buy")
    /\ callers' = [callers EXCEPT ![c].pc = "metrics_sell",
                                  ![c].buy_trades = buy_trades_of(trades)]
    /\ UNCHANGED <<strategy_vars, running, stop_event, lock, trading_thread, trades,
                   ws, connects, position, loops, feed, calls, events, stops, orders,
                   metrics, start_balance, series>>

\* `sell_trades = [...]` (276)
MetricsSellTrades(c) ==
    /\ At(c, "metrics_sell")
    /\ callers' = [callers EXCEPT ![c].pc = "metrics_dict",
                                  ![c].sell_trades = sell_trades_of(trades)]
    /\ UNCHANGED <<strategy_vars, running, stop_event, lock, trading_thread, trades,
                   ws, connects, position, loops, feed, calls, events, stops, orders,
                   metrics, start_balance, series>>

\* the dictionary with `len(self.trades)`, the win rate and the return (278-294)
MetricsReturn(c) ==
    /\ At(c, "metrics_dict")
    /\ metrics' = MetricsDict(start_balance, callers[c].current_balance, Len(trades),
                              callers[c].buy_trades, callers[c].sell_trades)
    /\ callers' = Return(c, "metrics")
    /\ UNCHANGED <<strategy_vars, running, stop_event, lock, trading_thread, trades,
                   ws, connects, position, loops, feed, calls, events, stops, orders, start_balance, series>>

----------------------------------------------------------------------------
(* get_performance_metrics as a function of the ledger and the balances:   *)
(* one call at a time on a bot that no other thread is using.              *)

\* Profits a SELL record can carry; 0.0 is what `order_result.get("profit",
\* 0.0)` (193, 341) records when the account reports none.
LedgerProfits == {-1, 0, 1}

LedgerRecords ==
    {LedgerEntry("BUY", 1, manual, 0) : manual \in BOOLEAN}
    \cup {LedgerEntry("SELL", 1, FALSE, profit) : profit \in LedgerProfits}

Ledgers == SeqsUpTo(LedgerRecords, MaxLedger)

\* A real account can start with no balance; the simulated one starts with 1000.
StartBalances == {0, StartBalance}

InitMetrics ==
    /\ strategy = NoStrategy
    /\ strategy_ref = 0
    /\ last_call = NoCall
    /\ prev_call = NoCall
    /\ running = FALSE
    /\ stop_event = FALSE
    /\ lock = "none"
    /\ trading_thread = 0
    /\ trades \in Ledgers
    /\ ws = FALSE
    /\ connects = 0
    /\ position = FALSE
    /\ callers = [c \in Callers |-> IdleCaller]
    /\ loops = <<>>
    /\ feed = IdleFeed
    /\ calls = 0
    /\ events = 0
    /\ stops = 0
    /\ orders = 0
    /\ metrics = NoMetrics
    /\ start_balance \in StartBalances
    /\ series = <<>>

GetPerformanceMetrics(current_balance) ==
    /\ metrics' = get_performance_metrics(trades, start_balance, current_balance)
    /\ UNCHANGED <<strategy_vars, running, stop_event, lock, trading_thread, trades,
                   ws, connects, position, callers, loops, feed, calls, events,
                   stops, orders, start_balance, series>>

NextMetrics == \E current_balance \in AccountBalances : GetPerformanceMetrics(current_balance)

SpecMetrics == InitMetrics /\ [][NextMetrics]_vars

----------------------------------------------------------------------------
(* End to end: one loop thread processes the signals it is handed, on a    *)
(* simulated account, and the metrics are read between signals.            *)

\* Signals handed to _process_signal.
SignalPrices == {100, 110}
Signals == {TradeSignal(type, price) : type \in {"BUY", "SELL"}, price \in SignalPrices}

\* The balance the simulated account reports: what it started with plus the
\* profit realised by the sells, an open position carried at cost.
Account_get_balance(ledger) ==
    start_balance + SumSeq([i \in 1..Len(ledger) |-> ledger[i].profit])

InitEndToEnd ==
    /\ strategy = NoStrategy
    /\ strategy_ref = 0
    /\ last_call = NoCall
    /\ prev_call = NoCall
    /\ running = TRUE
    /\ stop_event = FALSE
    /\ lock = "none"
    /\ trading_thread = 1
    /\ trades = <<>>
    /\ ws = FALSE
    /\ connects = 0
    /\ position = FALSE
    /\ callers = [c \in Callers |-> IdleCaller]
    /\ loops = <<NewLoop>>
    /\ feed = IdleFeed
    /\ calls = 0
    /\ events = 0
    /\ stops = 0
    /\ orders = 0
    /\ metrics = NoMetrics
    /\ start_balance = StartBalance
    /\ series = <<>>

\* `if signal: self._process_signal(signal)` (145-146)
ProcessSignal(k, signal) ==
    /\ LoopAt(k, "check")
    /\ loops[k].iter < MaxSignals
    /\ loops' = [loops EXCEPT ![k].signal = signal, ![k].pc = "order",
                              ![k].iter = @ + 1]
    /\ UNCHANGED <<strategy_vars, running, stop_event, lock, trading_thread, trades,
                   ws, connects, position, callers, feed, calls, events, stops, orders,
                   metrics, start_balance, series>>

\* get_performance_metrics with the balance the account reports
ReadMetrics == GetPerformanceMetrics(Account_get_balance(trades))

NextEndToEnd ==
    \/ \E signal \in Signals : ProcessSignal(1, signal)
    \/ \E outcome \in OrderOutcomes : LoopOrder(1, outcome)
    \/ \E profit \in SellProfits \cup {0} : LoopAppend(1, profit)
    \/ ReadMetrics

SpecEndToEnd == InitEndToEnd /\ [][NextEndToEnd]_vars

----------------------------------------------------------------------------
(* One decision loop running alone on an RSI strategy that is fed prices   *)
(* between iterations: what the strategy signals and what the orders do.   *)

InitRsiLoop ==
    /\ strategy \in {s \in FreshStrategies : s.kind = "RSIStrategy"}
    /\ strategy_ref = 1
    /\ last_call = NoCall
    /\ prev_call = NoCall
    /\ running = TRUE
    /\ stop_event = FALSE
    /\ lock = "none"
    /\ trading_thread = 1
    /\ trades = <<>>
    /\ ws = TRUE
    /\ connects = 1
    /\ position = FALSE
    /\ callers = [c \in Callers |-> IdleCaller]
    /\ loops = <<NewLoop>>
    /\ feed = IdleFeed
    /\ calls = 0
    /\ events = 0
    /\ stops = 0
    /\ orders = 0
    /\ metrics = NoMetrics
    /\ start_balance = StartBalance
    /\ series = <<>>

\* One iteration up to the signal (136-146): the price, the position the
\* account reports, execute, and `if signal:`.
LoopIteration(k, price) ==
    /\ LoopAt(k, "check")
    /\ loops[k].iter < MaxRounds
    /\ LET r == execute(strategy, price, Account_has_position)
       IN  /\ strategy' = r.self
           /\ last_call' = Call("execute", Account_has_position, r.signal)
           /\ prev_call' = NoCall
           /\ loops' = IF r.signal = None
                       THEN [loops EXCEPT ![k].iter = @ + 1]
                       ELSE [loops EXCEPT ![k].iter = @ + 1, ![k].signal = r.signal,
                                          ![k].pc = "order"]
    /\ UNCHANGED <<strategy_ref, running, stop_event, lock, trading_thread, trades,
                   ws, connects, position, callers, feed, calls, events, stops, orders,
                   metrics, start_balance, series>>

NextRsiLoop ==
    \/ \E price \in TickerPrices : LoopIteration(1, price)
    \/ \E outcome \in OrderOutcomes : LoopOrder(1, outcome)
    \/ \E profit \in SellProfits \cup {0} : LoopAppend(1, profit)
    \/ FeedTickCall
    \/ Reset

SpecRsiLoop == InitRsiLoop /\ [][NextRsiLoop]_vars

----------------------------------------------------------------------------
(* The websocket thread: _on_kline, _on_trade, _on_depth (201-235).  One   *)
(* thread delivers the messages, so feed calls follow one another.         *)

MayDeliver == ~Resuming /\ ws /\ feed.pc = "idle" /\ events < MaxEvents
Subscribed == strategy_ref # 0 /\ running

\* the feed call entered: the stores it will perform, the first one first
Feeding(event, price, result) ==
    [pc |-> "storing", event |-> event, price |-> price, ref |-> strategy_ref,
     stores |-> <<"prices">> \o DerivedStores(result), result |-> result]

OnKline(close, is_closed) ==
    /\ MayDeliver
    /\ events' = events + 1
    /\ feed' = IF Subscribed /\ is_closed
               THEN Feeding("kline", close, feed_ohlc(strategy, <<close>>)) ELSE feed
    /\ UNCHANGED <<strategy_vars, running, stop_event, lock, trading_thread, trades,
                   ws, connects, position, callers, loops, calls, stops, orders,
                   metrics, start_balance, series>>

OnTrade(price) ==
    /\ MayDeliver
    /\ events' = events + 1
    /\ feed' = IF Subscribed
               THEN Feeding("trade", price, feed_price_quantity_volume(strategy, price))
               ELSE feed
    /\ UNCHANGED <<strategy_vars, running, stop_event, lock, trading_thread, trades,
                   ws, connects, position, callers, loops, calls, stops, orders,
                   metrics, start_balance, series>>

OnDepth ==
    /\ MayDeliver
    /\ events' = events + 1
    /\ strategy' = IF Subscribed THEN feed_depth(strategy) ELSE strategy
    /\ UNCHANGED <<strategy_ref, last_call, prev_call, running, stop_event, lock,
                   trading_thread, trades, ws, connects, position, callers, loops,
                   feed, calls, stops, orders,
                   metrics, start_balance, series>>

\* the next attribute store of the feed call in progress; the call holds the
\* object it was given, which set_strategy may since have replaced
FeedStore ==
    /\ ~Resuming
    /\ feed.pc = "storing"
    /\ strategy' = IF feed.ref = strategy_ref
                   THEN Store(strategy, feed.stores[1], feed.result) ELSE strategy
    /\ feed' = IF Len(feed.stores) = 1 THEN IdleFeed
               ELSE [feed EXCEPT !.stores = Tail(@)]
    /\ UNCHANGED <<strategy_ref, last_call, prev_call, running, stop_event, lock,
                   trading_thread, trades, ws, connects, position, callers, loops,
                   calls, events, stops, orders,
                   metrics, start_balance, series>>

----------------------------------------------------------------------------
(* The orchestrator with its callers, loop threads and websocket thread.   *)

SetStrategyCall == \E c \in Callers, input \in StrategyInputs : SetStrategy(c, input)
StartCall ==
    \E c \in Callers :
        \/ StartBegin(c) \/ StartLock(c) \/ StartClear(c)
        \/ StartConnect(c) \/ StartThread(c)
StopCall ==
    \E c \in Callers :
        \/ StopLock(c) \/ StopSet(c) \/ StopDisconnect(c)
        \/ StopJoin(c)
ManualCall ==
    \E c \in Callers :
        \/ \E raised \in BOOLEAN, price \in QueriedPrices :
               \/ ManualBuyPrice(c, raised, price)
               \/ ManualSellPrice(c, raised, price)
        \/ \E outcome \in OrderOutcomes :
               \/ ManualBuyOrder(c, outcome)
               \/ ManualSellOrder(c, outcome)
        \/ \E type \in {"BUY", "SELL"}, profit \in SellProfits \cup {0} :
               ManualAppend(c, type, profit)
MetricsCall ==
    \E c \in Callers :
        \/ \E current_balance \in AccountBalances : MetricsBalance(c, current_balance)
        \/ MetricsBuyTrades(c) \/ MetricsSellTrades(c) \/ MetricsReturn(c)
LoopStep ==
    \E k \in 1..Len(loops) :
        \/ \E raised \in BOOLEAN, price \in QueriedPrices : LoopCheck(k, raised, price)
        \/ \E raised \in BOOLEAN : LoopPosition(k, raised)
        \/ LoopExecute(k)
        \/ \E outcome \in OrderOutcomes : LoopOrder(k, outcome)
        \/ \E profit \in SellProfits \cup {0} : LoopAppend(k, profit)
        \/ LoopBackoff(k)
FeedStep ==
    \/ \E close \in StreamPrices, is_closed \in BOOLEAN : OnKline(close, is_closed)
    \/ \E price \in StreamPrices : OnTrade(price)
    \/ OnDepth
    \/ FeedStore

ResumeCall == \E c \in Callers : Resume(c)

NextBot ==
    \/ SetStrategyCall
    \/ ResumeCall
    \/ StartCall
    \/ StopCall
    \/ ManualCall
    \/ MetricsCall
    \/ LoopStep
    \/ FeedStep

SpecBot == InitSpecBot /\ [][NextBot]_vars

----------------------------------------------------------------------------
(* The orchestrator from the moment stop() can find it Running, with no    *)
(* start() called afterwards.  start() sets the running flag and clears    *)
(* the stop event under the lock (83-89), so the earliest such moment is   *)
(* right after the lock is released, before the stream is connected and    *)
(* the loop thread started (92-103).                                       *)

InitStop ==
    /\ \E input \in StrategyInputs :
           strategy = input.instance /\ strategy_ref = input.ref
    /\ last_call = NoCall
    /\ prev_call = NoCall
    /\ running = TRUE
    /\ stop_event = FALSE
    /\ lock = "none"
    /\ trading_thread = 0
    /\ trades = <<>>
    /\ ws = FALSE
    /\ connects = 0
    /\ position = FALSE
    /\ \E c \in Callers :
           callers = [d \in Callers |-> IF d = c
                                        THEN [IdleCaller EXCEPT !.pc = "start_connect"]
                                        ELSE IdleCaller]
    /\ loops = <<>>
    /\ feed = IdleFeed
    /\ calls = 2
    /\ events = 0
    /\ stops = 0
    /\ orders = 0
    /\ metrics = NoMetrics
    /\ start_balance = StartBalance
    /\ series = <<>>

\* The rest of a start() or stop() call that is under way: the caller's
\* thread runs on, disconnect and the bounded join return.
CallerProgress ==
    \E c \in Callers :
        \/ StartConnect(c) \/ StartThread(c)
        \/ StopSet(c) \/ StopDisconnect(c) \/ StopJoin(c)

NextStop ==
    \/ \E c \in Callers : StartConnect(c) \/ StartThread(c)
    \/ StopCall
    \/ LoopStep
    \/ ResumeCall

\* Every thread is scheduled again and again, and every price query and
\* account call of the loop returns.
SpecStop ==
    /\ InitStop /\ [][NextStop]_vars
    /\ WF_vars(LoopStep) /\ WF_vars(CallerProgress) /\ WF_vars(ResumeCall)

----------------------------------------------------------------------------
(* Properties of the orchestrator.                                         *)

\* C1: while the orchestrator is Running, set_strategy fails and the active
\* strategy stays the object it was: no step taken with the running flag set
\* replaces the strategy reference.
C1_SetStrategyRejectedWhileRunning ==
    [][running => strategy_ref' = strategy_ref]_vars

\* The lifecycle state a start() call that finds the bot running must leave as it is.
Lifecycle == <<strategy_vars, running, stop_event, lock, trading_thread, trades, ws,
               connects, position, loops, feed, orders, start_balance, series>>

StartReturns(c) == callers[c].pc = "start_lock" /\ callers'[c] # callers[c]

\* C2: as long as no stop() has taken effect, start() calls subscribe the feed
\* once and launch one loop thread (exactly one of each once a start() has
\* returned), and a start() that finds the bot running returns normally
\* without changing any state of the orchestrator.
C2_SecondStartIsNoOp ==
    [][/\ stops' = 0 => connects' <= 1 /\ Len(loops') <= 1
       /\ (stops' = 0 /\ \E c \in Callers : callers'[c].result = "started")
              => connects' = 1 /\ Len(loops') = 1
       /\ \A c \in Callers :
              StartReturns(c) /\ running
                  => /\ Returned(c, "already_running")'
                     /\ UNCHANGED Lifecycle]_vars

\* C2 witness: a second start() has returned after the first one, with no
\* stop(): one subscription, one loop thread.
C2_Witness ==
    /\ stops = 0
    /\ \E c \in Callers : Returned(c, "already_running")
    /\ \A c \in Callers : callers[c].pc \in {"idle", "returned"}
    /\ running /\ connects = 1 /\ Len(loops) = 1 /\ trading_thread = 1

\* Loop threads that are inside an iteration.
Iterating == {k \in 1..Len(loops) : loops[k].pc \notin {"check", "done"}}

\* C3: at most one decision-loop thread is executing a loop iteration.
C3_AtMostOneLoopIterating == Cardinality(Iterating) <= 1

PlacesOrder(k) == LoopAt(k, "order") /\ loops'[k].pc # "order"

\* C4: the loop calls Account.buy for a BUY signal only when no position is
\* held at the moment of the call, and Account.sell for a SELL signal only
\* when one is held.
C4_OrdersGatedByPosition ==
    [][\A k \in 1..Len(loops) :
           PlacesOrder(k) => (loops[k].signal.type = "BUY" <=> ~position)]_vars

Executes(k) == LoopAt(k, "execute") /\ loops'[k].pc # "execute"

\* C5: execute never runs while a feed call on the same strategy object is
\* part-way through its stores.
C5_FeedAndExecuteExclusive ==
    [][\A k \in 1..Len(loops) :
           Executes(k) => ~(feed.pc = "storing" /\ feed.ref = strategy_ref)]_vars

----------------------------------------------------------------------------
(* Properties of the strategies (checked under SpecStrategy).              *)

\* The memory-cell value execute writes for a signal of the given direction.
MemoryFor(s, type) ==
    IF s.kind = "RSIStrategy"
    THEN (IF type = "BUY" THEN "buy" ELSE "sell")
    ELSE (IF type = "BUY" THEN "bullish" ELSE "bearish")

\* The minimum history of the claim: two values in both crossover series, or
\* one RSI value.
WarmedUp(s) ==
    CASE s.kind = "MovingAverageCrossover" -> Len(s.fast_ma) >= 2 /\ Len(s.slow_ma) >= 2
      [] s.kind = "MACDStrategy" -> Len(s.macd_line) >= 2 /\ Len(s.signal_line) >= 2
      [] s.kind = "RSIStrategy" -> s.rsi_values # <<>>

\* The retention window of an instance.
Window(s) ==
    CASE s.kind = "MovingAverageCrossover" ->
             2 * Max(s.parameters.fast_period, s.parameters.slow_period)
      [] s.kind = "RSIStrategy" -> 3 * s.parameters.period
      [] s.kind = "MACDStrategy" ->
             3 * Max(s.parameters.fast_period, s.parameters.slow_period)

\* C6 as stated: an execute call leaves the whole strategy state as it was,
\* the price series, the derived series and the memory cell included.
C6_ExecuteMutatesNothing ==
    [][ExecuteCall => strategy' = strategy]_vars

\* C6 amended: an execute call leaves the price series, the derived series and
\* the parameters as they were; it leaves the memory cell as it was when it
\* returns none, and sets it to the direction of the signal it returns.
C6_ExecuteFrame ==
    [][ExecuteCall =>
         /\ strategy'.kind = strategy.kind
         /\ strategy'.parameters = strategy.parameters
         /\ strategy'.prices = strategy.prices
         /\ DerivedSeries(strategy') = DerivedSeries(strategy)
         /\ IF last_call'.signal.type = "NONE"
            THEN Memory(strategy') = Memory(strategy)
            ELSE Memory(strategy') = MemoryFor(strategy, last_call'.signal.type)
      ]_vars

\* An execute call returned a signal and the memory cell holds its direction.
C6_Witness ==
    /\ last_call.op = "execute"
    /\ last_call.signal.type = "SELL"
    /\ Memory(strategy) = MemoryFor(strategy, "SELL")
    /\ strategy.kind = "MovingAverageCrossover"

\* An execute call that follows an execute call with the same in_position.
RepeatedExecute(b) ==
    /\ last_call.op = "execute"
    /\ last_call.in_position = b
    /\ \E p \in Prices : Execute(p, b)

\* C7 as stated: for each strategy, an execute call that follows an execute
\* call with the same in_position (no feed or reset between) returns the same
\* decision.
C7_SameDecision ==
    [][\A b \in BOOLEAN :
         RepeatedExecute(b) => last_call'.signal.type = last_call.signal.type]_vars

\* C7 amended: that holds for the moving-average and MACD strategies; the RSI
\* strategy's decision also depends on its last-action memory, and its second
\* call returns none (the first call's decision only if that was none).
C7_SameDecisionExceptRSI ==
    [][\A b \in BOOLEAN :
         RepeatedExecute(b) =>
             IF strategy.kind = "RSIStrategy"
             THEN last_call'.signal.type = "NONE"
             ELSE last_call'.signal.type = last_call.signal.type]_vars

\* Two execute calls in a row with the same in_position both returned BUY.
C7_Witness ==
    /\ prev_call.op = "execute"
    /\ last_call.op = "execute"
    /\ prev_call.in_position = last_call.in_position
    /\ prev_call.signal.type = "BUY"
    /\ last_call.signal.type = "BUY"
    /\ strategy.kind = "MACDStrategy"

\* C8: an execute call on a strategy that has not reached its minimum history
\* (two values in both crossover series, one RSI value) returns none.
C8_NoSignalBeforeWarmup ==
    (last_call.op = "execute" /\ ~WarmedUp(strategy)) => last_call.signal = None

\* execute was called after some feed, with one crossover series still short
\* of two values.
C8_Witness ==
    /\ last_call.op = "execute"
    /\ strategy.kind = "MovingAverageCrossover"
    /\ Len(strategy.fast_ma) >= 2
    /\ Len(strategy.slow_ma) = 1
    /\ last_call.signal = None

\* C9 as stated: no derived series is longer than the retained price series.
C9_DerivedWithinPrices ==
    \A i \in DOMAIN DerivedSeries(strategy) :
        Len(DerivedSeries(strategy)[i]) <= Len(strategy.prices)

\* C10 as stated: the retained price series is within the strategy's window.
C10_PricesWithinWindow ==
    Len(strategy.prices) <= Window(strategy)

----------------------------------------------------------------------------
(* Properties of the orchestrator's feed callbacks, loop, manual orders    *)
(* and ledger.                                                             *)

\* The websocket thread performs the `self.prices = ...` store of the
\* feed_ohlc call that _on_kline made for a closed candle.
KlineStoresPrices ==
    /\ feed.pc = "storing" /\ feed.event = "kline" /\ feed.stores[1] = "prices"
    /\ feed.ref = strategy_ref
    /\ feed' # feed

\* C11: when the feed delivers a closed candle while Running, the price
\* series afterwards is the previous series extended by the candle's close,
\* truncated to the window.
C11_ClosedCandleAppends ==
    [][KlineStoresPrices
           => strategy'.prices = LastN(Append(strategy.prices, feed.price),
                                       Window(strategy))]_vars

\* The websocket thread takes a step: it delivers an event or performs the
\* next store of the feed call in progress.
FeedDelivers == events' # events
FeedStores == feed.pc = "storing" /\ feed' # feed

\* C12: an event delivered while no strategy is set or the orchestrator is
\* not Running starts no feed call, and no step of the websocket thread taken
\* while the orchestrator is not Running changes the strategy, a feed call
\* that runs concurrently with stop() included.
C12_FeedOnlyWhileRunning ==
    [][/\ (FeedDelivers /\ ~Subscribed) => feed' = feed /\ strategy' = strategy
       /\ (FeedStores /\ ~running) => strategy' = strategy]_vars

\* manual_buy / manual_sell call Account.buy / Account.sell
ManualOrders(c) == callers[c].pc \in {"BUY", "SELL"} /\ callers'[c] # callers[c]

\* C13: a price of 0.0 returned by the price query is never used as a market
\* price: the loop does not pass it to execute, and neither the loop nor a
\* manual order calls Account.buy or Account.sell with it.
C13_ZeroPriceNeverUsed ==
    [][/\ \A k \in 1..Len(loops) :
              /\ Executes(k) => loops[k].current_price # 0
              /\ PlacesOrder(k) => loops[k].signal.price # 0
       /\ \A c \in Callers : ManualOrders(c) => callers[c].current_price # 0]_vars

\* C14: start() called when no strategy is set raises and changes nothing:
\* the call does not get past the strategy check, the step that raises
\* leaves the orchestrator's state as it was, and as long as no strategy is
\* set running stays false, the feed is not subscribed and no loop thread is
\* launched.
C14_StartWithoutStrategyRaises ==
    [][/\ \A c \in Callers :
              /\ strategy_ref = 0 => callers'[c].pc # "start_lock"
              /\ (Returned(c, "ValueError")' /\ ~Returned(c, "ValueError"))
                     => strategy_ref = 0 /\ UNCHANGED Lifecycle
       /\ strategy_ref' = 0
              => ~running' /\ ~ws' /\ connects' = 0 /\ Len(loops') = 0]_vars

\* C14 witness: a start() has raised with no strategy set, the bot stopped,
\* unsubscribed and without a loop thread.
C14_Witness ==
    /\ \E c \in Callers : Returned(c, "ValueError")
    /\ strategy_ref = 0 /\ ~running /\ ~ws /\ connects = 0 /\ Len(loops) = 0

\* a stop() call takes its first step: the lock and the running check
StopBegins(c) ==
    /\ Idle(c)
    /\ \/ Returned(c, "not_running")'
       \/ callers'[c].pc = "stop_set"

\* C15: stop() called while the orchestrator is not Running is a no-op: it
\* returns at the running check, places no order, and leaves the ledger, the
\* running flag, the stop signal, the account and the feed subscription as
\* they were.
C15_StopWhileStoppedIsNoOp ==
    [][\A c \in Callers :
           /\ (StopBegins(c) /\ ~running)
                  => Returned(c, "not_running")' /\ UNCHANGED Lifecycle
           /\ (Returned(c, "not_running")' /\ ~Returned(c, "not_running"))
                  => ~running /\ UNCHANGED Lifecycle]_vars

\* C15 witness: a stop() has returned at the running check before any
\* start(): nothing was subscribed, launched or traded.
C15_Witness ==
    /\ \E c \in Callers : Returned(c, "not_running")
    /\ ~running /\ ~stop_event /\ ~ws /\ connects = 0 /\ stops = 0
    /\ Len(loops) = 0 /\ Len(trades) = 0

\* C16: the decision loop never terminates because of a processing error:
\* its thread ends only at a test of the stop event that finds it set, an
\* error raised in an iteration takes the thread to the handler, and from
\* the handler it goes back to the test.
C16_LoopExitsOnlyOnStop ==
    [][\A k \in 1..Len(loops) :
           /\ (loops'[k].pc = "done" /\ loops[k].pc # "done")
                  => stop_event /\ loops[k].pc = "check"
           /\ (loops[k].pc = "backoff" /\ loops'[k] # loops[k])
                  => loops'[k].pc = "check"]_vars

\* C16 witness: an account query raised inside an iteration and the loop
\* thread is in the handler, alive, the stop event not set.
C16_Witness ==
    \E k \in 1..Len(loops) :
        loops[k].pc = "backoff" /\ loops[k].iter = 1 /\ ~stop_event /\ running

\* Threads that hold the result of a successful order and have not yet
\* appended its record.
PendingAppends ==
    Cardinality({k \in 1..Len(loops) : loops[k].pc = "append"})
    + Cardinality({c \in Callers : callers[c].pc \in {"append_BUY", "append_SELL"}})

\* C17: each signal gets at most one order attempt and the ledger has one
\* record per successful Account.buy / Account.sell call: the records and
\* the appends still to come add up to the successful orders, the loop's
\* order step is taken once per signal and changes no record, a failed order
\* ends the processing of the signal with no retry, and a successful one is
\* followed by one append.
C17_OneRecordPerSuccessfulOrder ==
    [][/\ orders' = Len(trades') + PendingAppends'
       /\ \A k \in 1..Len(loops) :
              /\ PlacesOrder(k)
                     => /\ trades' = trades
                        /\ \/ orders' = orders + 1 /\ loops'[k].pc = "append"
                           \/ /\ orders' = orders /\ loops'[k].pc = "check"
                              /\ loops'[k].signal = None
              /\ (loops[k].pc = "append" /\ loops'[k] # loops[k])
                     => /\ Len(trades') = Len(trades) + 1
                        /\ orders' = orders
                        /\ loops'[k].pc = "check" /\ loops'[k].signal = None]_vars

\* C17 witness: the loop's order for a signal succeeded and its record is in
\* the ledger, which holds as many records as orders succeeded.
C17_Witness ==
    /\ orders >= 2 /\ Len(trades) = orders /\ PendingAppends = 0
    /\ \E i \in 1..Len(trades) : ~trades[i].manual

\* manual_buy / manual_sell: the call begins with its price query, and after
\* a successful order it appends the record
ManualBegins(c) == Idle(c) /\ callers'[c].pc \in {"BUY", "SELL"}
ManualAppends(c) ==
    callers[c].pc \in {"append_BUY", "append_SELL"} /\ callers'[c] # callers[c]

\* C18: manual_buy / manual_sell never call execute and never change the
\* running flag; an order that fails or raises ends the call with that
\* result and no record, and a successful one is followed by the append of
\* exactly one record, tagged manual, of the order's type and price, after
\* which the call returns the success.
C18_ManualOrdersRecordedAsManual ==
    [][\A c \in Callers :
           /\ ManualBegins(c)
                  => UNCHANGED <<strategy_vars, running, trades, orders, position>>
           /\ ManualOrders(c)
                  => /\ UNCHANGED <<strategy_vars, running, trades>>
                     /\ \/ /\ orders' = orders + 1
                           /\ callers'[c].pc = IF callers[c].pc = "BUY"
                                               THEN "append_BUY" ELSE "append_SELL"
                        \/ /\ orders' = orders
                           /\ Returned(c, "failure")' \/ Returned(c, "raised")'
           /\ ManualAppends(c)
                  => /\ UNCHANGED <<strategy_vars, running, orders, position>>
                     /\ Len(trades') = Len(trades) + 1
                     /\ SubSeq(trades', 1, Len(trades)) = trades
                     /\ trades'[Len(trades')].manual
                     /\ trades'[Len(trades')].type
                            = IF callers[c].pc = "append_BUY" THEN "BUY" ELSE "SELL"
                     /\ trades'[Len(trades')].price = callers[c].current_price
                     /\ Returned(c, "success")']_vars

\* C18 witness: a manual order has succeeded and returned with no strategy
\* set and the bot never started; its record is the ledger.
C18_Witness ==
    /\ strategy_ref = 0 /\ ~running /\ connects = 0
    /\ \E c \in Callers : Returned(c, "success")
    /\ Len(trades) = 1 /\ trades[1].manual /\ trades[1].type = "BUY"

\* Program locations inside start(), stop() and get_performance_metrics(),
\* and the results with which these calls return.
LedgerReaderPcs ==
    {"start_lock", "start_clear", "start_connect", "start_thread",
     "stop_set", "stop_disconnect", "stop_join",
     "metrics_buy", "metrics_sell", "metrics_dict"}
LedgerReaderResults ==
    {"ValueError", "already_running", "started", "not_running", "stopped", "metrics"}

\* caller c takes a step of a start(), stop() or get_performance_metrics() call
LedgerReaderSteps(c) ==
    /\ callers'[c] # callers[c]
    /\ \/ callers[c].pc \in LedgerReaderPcs
       \/ callers'[c].pc \in LedgerReaderPcs
       \/ callers'[c].result \in LedgerReaderResults

\* C19: the ledger is append-only: after every step the ledger before the
\* step is a prefix of the ledger after it, and the steps of
\* get_performance_metrics, start and stop leave it unchanged.
C19_LedgerAppendOnly ==
    [][/\ Len(trades') >= Len(trades)
       /\ SubSeq(trades', 1, Len(trades)) = trades
       /\ \A c \in Callers : LedgerReaderSteps(c) => trades' = trades]_vars

\* C19 witness: a get_performance_metrics call has returned on a ledger of
\* two records, a loop's and a manual one, both still in place.
C19_Witness ==
    /\ \E c \in Callers : Returned(c, "metrics")
    /\ metrics.returned = "metrics" /\ metrics.num_trades = 2
    /\ Len(trades) = 2
    /\ \E i, j \in 1..2 : trades[i].manual /\ ~trades[j].manual

----------------------------------------------------------------------------
(* Properties of get_performance_metrics (checked under SpecMetrics).      *)

\* Positions of the ledger's records of one type, and of its winning sells.
RecordsOfType(type) == {i \in 1..Len(trades) : trades[i].type = type}
WinningSells == {i \in RecordsOfType("SELL") : trades[i].profit > 0}

\* C20: the metrics returned report as buy and sell counts the numbers of
\* BUY and SELL records of the ledger, and as win_rate 100 times the number
\* of SELL records with profit > 0 over the number of SELL records, exactly 0
\* when there is no SELL record, always within [0, 100].
C20_WinRate ==
    metrics.returned = "metrics"
        => /\ metrics.num_buy_trades = Cardinality(RecordsOfType("BUY"))
           /\ metrics.num_sell_trades = Cardinality(RecordsOfType("SELL"))
           /\ IF RecordsOfType("SELL") = {}
              THEN metrics.win_rate = RInt(0)
              ELSE /\ metrics.win_rate[2] > 0
                   /\ metrics.win_rate[1] * Cardinality(RecordsOfType("SELL"))
                          = 100 * Cardinality(WinningSells) * metrics.win_rate[2]
           /\ RLe(RInt(0), metrics.win_rate)
           /\ RLe(metrics.win_rate, RInt(100))

\* C20 witness: the metrics of a ledger with one BUY, one winning SELL and
\* one SELL without profit: a win rate of 50.
C20_Witness ==
    /\ metrics.returned = "metrics"
    /\ metrics.win_rate = RInt(50)
    /\ metrics.num_buy_trades = 1 /\ metrics.num_sell_trades = 2
    /\ \E i \in RecordsOfType("SELL") : trades[i].profit = 0

\* C21: get_performance_metrics is computable at any time: for every ledger
\* and every starting and current balance, a starting balance of 0 included,
\* the call returns a metrics record and does not raise.
C21_MetricsNeverRaise == metrics.returned \in {"nothing", "metrics"}

----------------------------------------------------------------------------
(* Properties of the signal-to-ledger-to-metrics path (SpecEndToEnd).      *)

\* The ledger of a bought-and-sold round trip: BUY at 100, then SELL at 110
\* with a positive profit.
RoundTrip ==
    <<LedgerEntry("BUY", 100, FALSE, 0), LedgerEntry("SELL", 110, FALSE, 1)>>

\* C22: from an empty ledger, each signal whose order succeeds adds exactly
\* its own record at the end of the ledger and each one whose order fails
\* adds none, so that a BUY at 100 and a SELL at 110 with positive profit,
\* both filled, leave exactly the two records BUY then SELL; the metrics
\* read on that ledger report win_rate = 100 and profit > 0.
C22_EndToEnd ==
    [][/\ PlacesOrder(1)
              => /\ trades' = trades
                 /\ orders' = orders => loops'[1].pc = "check"
       /\ (loops[1].pc = "append" /\ loops'[1] # loops[1])
              => /\ Len(trades') = Len(trades) + 1
                 /\ SubSeq(trades', 1, Len(trades)) = trades
                 /\ trades'[Len(trades')].type = loops[1].signal.type
                 /\ trades'[Len(trades')].price = loops[1].signal.price
       /\ loops'[1].pc = "check" => Len(trades') = orders'
       /\ (metrics' # metrics /\ trades = RoundTrip)
              => /\ metrics'.returned = "metrics"
                 /\ metrics'.num_trades = 2
                 /\ metrics'.num_buy_trades = 1 /\ metrics'.num_sell_trades = 1
                 /\ metrics'.win_rate = RInt(100)
                 /\ metrics'.profit > 0]_vars

\* C22 witness: two signals were processed, both orders filled, the ledger
\* is the round trip and the metrics read on it are in.
C22_Witness ==
    /\ loops[1].iter = 2 /\ loops[1].pc = "check" /\ orders = 2
    /\ trades = RoundTrip
    /\ metrics.returned = "metrics" /\ metrics.num_trades = 2
    /\ metrics.win_rate = RInt(100) /\ metrics.profit > 0

----------------------------------------------------------------------------
(* Properties of the strategies, continued (checked under SpecStrategy).   *)

\* The instance the constructor builds from the parameters of s.
Constructed(s) ==
    CASE s.kind = "MovingAverageCrossover" ->
             MovingAverageCrossover(s.parameters.fast_period, s.parameters.slow_period)
      [] s.kind = "RSIStrategy" -> RSIStrategy(s.parameters.period)
      [] s.kind = "MACDStrategy" ->
             MACDStrategy(s.parameters.fast_period, s.parameters.slow_period,
                          s.parameters.signal_period)

\* C23: a run that starts with reset() does not depend on the state the
\* strategy was in before: no call changes the parameters, and reset()
\* leaves the instance in the state its constructor built, with no price, no
\* derived value and no memory left, so the same candles and the same
\* execute calls after any reset give the same series and decisions.
C23_ResetRestoresInitialState ==
    [][/\ strategy'.kind = strategy.kind
       /\ strategy'.parameters = strategy.parameters
       /\ last_call'.op = "reset"
              => /\ strategy' = Constructed(strategy)
                 /\ \A batch \in Batches :
                        feed_ohlc(strategy', batch)
                            = feed_ohlc(Constructed(strategy), batch)]_vars

\* C23 witness: reset() has run on an RSI strategy and left it empty, its
\* memory cleared.
C23_Witness ==
    /\ last_call.op = "reset"
    /\ strategy.kind = "RSIStrategy"
    /\ strategy.prices = <<>> /\ strategy.rsi_values = <<>>
    /\ strategy.last_action = "None"

----------------------------------------------------------------------------
(* Properties of a strategy fed one observation at a time (SpecSeries).    *)

\* C24: MACD with periods 2, 3 and 2 on a 10-point series: the histogram
\* after the 10 points were fed one at a time through
\* feed_price_quantity_volume equals, in length and values, the histogram
\* after one batch feed of the same 10 points.
C24_BatchEqualsIncremental ==
    (strategy.kind = "MACDStrategy" /\ Len(series) = 10)
        => strategy.histogram = feed_ohlc(Constructed(strategy), series).histogram

\* The closes of the worked example, and the simple average of the last
\* `period` values of a series computed by hand.
Closes == <<1, 1, 1, 2, 3, 10>>
HandSMA(q, period) == Rat(SumSeq(SubSeq(q, Len(q) - period + 1, Len(q))), period)
Earlier(q) == SubSeq(q, 1, Len(q) - 1)

\* the hand-computed crossover of the 2-period over the 3-period average
\* at the last observation of q
HandBullish(q) ==
    /\ Len(q) >= 4
    /\ RLe(HandSMA(Earlier(q), 2), HandSMA(Earlier(q), 3))
    /\ RGt(HandSMA(q, 2), HandSMA(q, 3))

\* C25: moving-average crossover with periods 2 and 3 fed observations one
\* at a time: execute returns BUY exactly when it is called out of position
\* at an observation where the hand-computed averages cross upwards, and on
\* the closes 1, 1, 1, 2, 3, 10 that is after the 4th close only; called in
\* position it returns no BUY.
C25_BuyAtHandComputedCrossover ==
    (strategy.kind = "MovingAverageCrossover" /\ last_call.op = "execute")
        => /\ last_call.signal.type = "BUY"
                  <=> (~last_call.in_position /\ HandBullish(series))
           /\ (/\ Len(series) <= Len(Closes)
               /\ series = SubSeq(Closes, 1, Len(series))
               /\ ~last_call.in_position)
                  => (last_call.signal.type = "BUY" <=> Len(series) = 4)

\* C25 witness: execute out of position after the closes 1, 1, 1, 2 has
\* returned BUY.
C25_Witness ==
    /\ strategy.kind = "MovingAverageCrossover"
    /\ series = <<1, 1, 1, 2>>
    /\ last_call.op = "execute" /\ ~last_call.in_position
    /\ last_call.signal = TradeSignal("BUY", 2)


----------------------------------------------------------------------------
(* Properties of the decision rules (SpecStrategy).                        *)

\* The two series a crossover strategy compares: a over b.
CrossoverPair(s) ==
    IF s.kind = "MovingAverageCrossover" THEN <<s.fast_ma, s.slow_ma>>
    ELSE <<s.macd_line, s.signal_line>>

IsCrossoverStrategy(s) == s.kind \in {"MovingAverageCrossover", "MACDStrategy"}

\* The signal type the stated rule gives for series a and b.
CrossoverRule(a, b, in_position) ==
    IF RLe(Last2(a), Last2(b)) /\ RGt(Last(a), Last(b)) /\ ~in_position THEN "BUY"
    ELSE IF RGe(Last2(a), Last2(b)) /\ RLt(Last(a), Last(b)) /\ in_position THEN "SELL"
    ELSE "NONE"

\* C26: for the moving-average and MACD strategies with at least two values
\* in both series, execute returns BUY exactly when prev(a) <= prev(b),
\* cur(a) > cur(b) and not in position, SELL exactly when prev(a) >= prev(b),
\* cur(a) < cur(b) and in position, and nothing otherwise; equal current
\* values never give a signal, equal previous values do.
C26_CrossoverRule ==
    [][(/\ IsCrossoverStrategy(strategy)
        /\ last_call'.op = "execute"
        /\ Len(CrossoverPair(strategy)[1]) >= 2
        /\ Len(CrossoverPair(strategy)[2]) >= 2)
        => LET a == CrossoverPair(strategy)[1]
               b == CrossoverPair(strategy)[2]
               in_position == last_call'.in_position
               type == last_call'.signal.type
           IN  /\ type = CrossoverRule(a, b, in_position)
               /\ Last(a) = Last(b) => type = "NONE"
               /\ (Last2(a) = Last2(b) /\ RGt(Last(a), Last(b)) /\ ~in_position)
                      => type = "BUY"
               /\ (Last2(a) = Last2(b) /\ RLt(Last(a), Last(b)) /\ in_position)
                      => type = "SELL"]_vars

\* C26 witness: a BUY returned on a crossover whose previous values were equal.
C26_Witness ==
    /\ IsCrossoverStrategy(strategy)
    /\ Len(CrossoverPair(strategy)[1]) >= 2
    /\ Len(CrossoverPair(strategy)[2]) >= 2
    /\ Last2(CrossoverPair(strategy)[1]) = Last2(CrossoverPair(strategy)[2])
    /\ last_call.op = "execute" /\ ~last_call.in_position
    /\ last_call.signal.type = "BUY"


\* The step is an execute call that returned a signal of the given type.
Returns(type) == last_call'.op = "execute" /\ last_call'.signal.type = type

\* C27: the RSI strategy returns BUY only when its last action is not a
\* buy and then records a buy, returns SELL only when its last action is not
\* a sell and then records a sell, and the last action changes in no other
\* way except that reset() clears it: between two BUY signals there is a
\* SELL signal or a reset(), between two SELL signals a BUY or a reset().
C27_LastActionSuppression ==
    [][strategy.kind = "RSIStrategy"
        => /\ Returns("BUY")
                  => (strategy.last_action # "buy" /\ strategy'.last_action = "buy")
           /\ Returns("SELL")
                  => (strategy.last_action # "sell" /\ strategy'.last_action = "sell")
           /\ strategy'.last_action # strategy.last_action
                  => \/ Returns("BUY") /\ strategy'.last_action = "buy"
                     \/ Returns("SELL") /\ strategy'.last_action = "sell"
                     \/ last_call'.op = "reset" /\ strategy'.last_action = "None"]_vars

\* C27 witness: an oversold RSI and no position, yet execute returned
\* nothing because the last action was a buy.
C27_Witness ==
    /\ strategy.kind = "RSIStrategy"
    /\ strategy.rsi_values # <<>>
    /\ RLe(Last(strategy.rsi_values), RInt(RSI_OVERSOLD))
    /\ strategy.last_action = "buy"
    /\ last_call = Call("execute", FALSE, None)

\* C28: every value of the RSI series is a number within [0, 100], never
\* NaN, a flat price series (average gain and average loss both 0) included.
C28_RsiWithinRange ==
    strategy.kind = "RSIStrategy"
        => \A i \in 1..Len(strategy.rsi_values) :
               /\ ~IsNan(strategy.rsi_values[i])
               /\ RGe(strategy.rsi_values[i], RInt(0))
               /\ RLe(strategy.rsi_values[i], RInt(100))

\* The indicator series computed from the retained prices alone: what a
\* freshly constructed instance holds after a batch feed of those prices,
\* empty series when they are too few.
Recomputed(s) == DerivedSeries(feed_ohlc(Constructed(s), s.prices))

\* C29: after every feed the derived series are exactly the indicator
\* recomputed from the prices currently retained, and empty when these are
\* too few.
C29_SeriesFollowPrices ==
    last_call.op = "feed" => DerivedSeries(strategy) = Recomputed(strategy)


----------------------------------------------------------------------------
(* Properties of stopping (SpecStop).                                      *)

\* stop() found the bot Running (110-114).
StopSignalled == stops > 0
LoopsExited == \A k \in 1..Len(loops) : loops[k].pc = "done"

\* C30: once stop() has been called on a Running bot and no start() is
\* called afterwards, every loop thread eventually exits and stays exited,
\* and after the stop event is set no loop begins another iteration.
C30_StopLiveness ==
    /\ [][stop_event => \A k \in 1..Len(loops) : loops'[k].iter = loops[k].iter]_vars
    /\ StopSignalled ~> []LoopsExited

\* C30 witness: the stop event is set, and the loop thread has exited after
\* the iteration that recorded a trade.
C30_Witness ==
    /\ stops = 1 /\ stop_event
    /\ Len(loops) = 1 /\ loops[1].pc = "done" /\ loops[1].iter = 1
    /\ Len(trades) = 1


\* A stop() call that found the bot Running has returned (127): the running
\* flag was cleared by it and no caller is inside stop() any more.
StopReturned ==
    /\ stops > 0
    /\ \A c \in Callers : callers[c].pc \notin {"stop_set", "stop_disconnect", "stop_join"}

\* C31: once a stop() call on a Running orchestrator has returned, and with
\* no start() called afterwards, no loop thread places an order or appends
\* a ledger record.
C31_NoOrdersAfterStopReturned ==
    [][StopReturned => /\ \A k \in 1..Len(loops) : ~PlacesOrder(k)
                       /\ trades' = trades]_vars


\* No start() or stop() call is in progress.
Quiescent ==
    \A c \in Callers :
        callers[c].pc \notin {"start_lock", "start_clear", "start_connect", "start_thread",
                              "stop_set", "stop_disconnect", "stop_join"}
LoopAlive == \E k \in 1..Len(loops) : loops[k].pc # "done"

\* C32: whenever no start() or stop() call is in progress, the running flag
\* is set exactly when the feed is connected, and exactly when a decision
\* loop is alive with the stop event clear, whatever the interleaving of
\* the calls.
C32_LifecycleConsistent ==
    Quiescent => /\ running <=> ws
                 /\ running <=> (LoopAlive /\ ~stop_event)


----------------------------------------------------------------------------
(* Properties of the RSI strategy under a decision loop (SpecRsiLoop).     *)

\* The step is an iteration of the loop: execute has been called.
Iterates == loops'[1].iter = loops[1].iter + 1

\* C33: the RSI strategy records its last action when execute returns the
\* signal, whatever the order does afterwards: placing the order leaves the
\* strategy as it is, and while the last action is a buy and the account
\* holds no position, every execute returns nothing and the last action
\* stays a buy; only reset() clears it.
C33_LastActionIgnoresOutcome ==
    [][/\ PlacesOrder(1) => strategy' = strategy
       /\ (strategy.last_action = "buy" /\ ~position /\ Iterates)
              => (last_call'.signal = None /\ strategy' = strategy)
       /\ (strategy.last_action = "buy" /\ ~position /\ strategy'.last_action # "buy")
              => last_call'.op = "reset"]_vars

\* C33 witness: a BUY was signalled and its order did not succeed; at a
\* later iteration the RSI is oversold, the account holds no position, and
\* execute has returned nothing.
C33_Witness ==
    /\ strategy.last_action = "buy"
    /\ ~position /\ orders = 0 /\ trades = <<>>
    /\ loops[1].pc = "check" /\ loops[1].iter >= 2
    /\ strategy.rsi_values # <<>>
    /\ RLe(Last(strategy.rsi_values), RInt(RSI_OVERSOLD))
    /\ last_call = Call("execute", FALSE, None)


----------------------------------------------------------------------------
(* Properties of the metrics read while other threads run (SpecBot).       *)

\* C34: every dictionary get_performance_metrics returns counts as many
\* trades as buy trades and sell trades together.
C34_MetricsSnapshot ==
    metrics.returned = "metrics"
        => metrics.num_trades = metrics.num_buy_trades + metrics.num_sell_trades


----------------------------------------------------------------------------
(* Alignment of the derived series (SpecStrategy).                         *)

\* C35: the MACD line, the signal line and the histogram of a MACD strategy
\* always have the same length, with histogram[i] = macd_line[i] -
\* signal_line[i]; the two averages of a moving-average strategy with
\* fast_period <= slow_period, when not empty, differ in length by
\* slow_period - fast_period.
C35_SeriesAligned ==
    /\ strategy.kind = "MACDStrategy"
           => /\ Len(strategy.macd_line) = Len(strategy.signal_line)
              /\ Len(strategy.histogram) = Len(strategy.signal_line)
              /\ \A i \in 1..Len(strategy.histogram) :
                     strategy.histogram[i]
                         = RSub(strategy.macd_line[i], strategy.signal_line[i])
    /\ (/\ strategy.kind = "MovingAverageCrossover"
        /\ strategy.parameters.fast_period <= strategy.parameters.slow_period
        /\ strategy.fast_ma # <<>> /\ strategy.slow_ma # <<>>)
           => Len(strategy.fast_ma) - Len(strategy.slow_ma)
                  = strategy.parameters.slow_period - strategy.parameters.fast_period

\* C35 witness: a MACD strategy whose MACD line was cut to the length of a
\* signal line of several values.
C35_Witness ==
    /\ strategy.kind = "MACDStrategy"
    /\ Len(strategy.histogram) >= 2
    /\ Len(strategy.prices) > Len(strategy.macd_line) + 1

====
